---- MODULE Spec2Model ----
(***************************************************************************)
(* Model of the analytics engine of PortfolioHeatmapGenerator              *)
(* (src/Sharpe_Ratio_Heatmap_Generator.js): position sizing, the daily     *)
(* aggregation fold, the period statistics and the drawdown detector.      *)
(*                                                                         *)
(* Amounts of money are integers in 1/1000 USD.  Products with a           *)
(* percentage are truncated to that unit.  Ratios the code computes by a   *)
(* floating point division are exact fractions <<n, d>> in lowest terms.   *)
(***************************************************************************)
EXTENDS Integers, Sequences, FiniteSets, TLC

VARIABLES
    trades,             \* this.trades: the sorted, combined trade list
    dailyRecords,       \* this.dailyRecords
    initialCapital,     \* this.initialCapital
    commissionRate,     \* this.commissionRate, in 1/10000 (0.01 %)
    positionSizeType,   \* this.positionSizeType
    positionSize,       \* this.positionSize (1/1000 USD when fixed, % otherwise)
    detectedPnlColumn,  \* this.detectedPnlColumn
    pc,                 \* position of generateAllOutputs / of the detector
    build,              \* the value buildDailySeries returned last
    statsArg,           \* the trade list calculatePeriodStats was called with last
    stats,              \* the value calculatePeriodStats returned last
    scan,               \* locals of generateDrawdownEventsFromDaily
    periods,            \* this.periods
    walk,               \* locals of calculatePeriods
    heatmapData,        \* heatmapData of generateRectangularHeatmapData
    returns,            \* the sample of generatePnLDistributionData
    drawdownEvents,     \* the argument of generateDrawdownDistributionData
    binSizeInStdDev,    \* this.binSizeInStdDev, a fraction
    bins,               \* the bins a distribution function returned last
    equityCurve         \* the points generateEquityCurveData returned last

generatorVars ==
    <<trades, dailyRecords, initialCapital, commissionRate, positionSizeType,
      positionSize, detectedPnlColumn, pc, build, statsArg, stats, scan>>

periodVars == <<periods, walk, heatmapData>>

binnerVars == <<returns, drawdownEvents, binSizeInStdDev, bins, equityCurve>>

vars == <<generatorVars, periodVars, binnerVars>>

-----------------------------------------------------------------------------
(* Bounds of the model                                                     *)

MaxTrades == 3
MaxDays == 4

(* One USD, in the unit of the model.                                      *)
USD == 10 * 100

NULL == "null"

-----------------------------------------------------------------------------
(* Numbers                                                                 *)

Abs(x) == IF x < 0 THEN -x ELSE x

RECURSIVE GCD(_, _)
GCD(a, b) == IF b = 0 THEN a ELSE GCD(b, a % b)

(* n / d for d > 0, as a fraction in lowest terms.                         *)
Frac(n, d) ==
    IF n = 0 THEN <<0, 1>>
    ELSE LET g == GCD(Abs(n), d) IN <<n \div g, d \div g>>

(* x \div b^e for x >= 0, without the power itself.                        *)
RECURSIVE DivPower(_, _, _)
DivPower(x, b, e) == IF e = 0 \/ x = 0 THEN x ELSE DivPower(x \div b, b, e - 1)

(* A double the statistics return: k is "fin", "inf", "nan", or "edge"     *)
(* when the integer bounds below cannot tell a finite power from an        *)
(* overflowed one; v is the finite value as a fraction, or the term        *)
(* <<finalEquity, initialCapital, days>> of an annualised return.          *)
Fin(v) == [k |-> "fin", v |-> v]
Infinity == [k |-> "inf", v |-> <<1, 0>>]
NaN == [k |-> "nan", v |-> <<0, 0>>]
Zero == Fin(<<0, 1>>)

-----------------------------------------------------------------------------
(* Trade records                                                           *)

(* A cell of a trade row: a number (the value its text parses to once the  *)
(* thousands separators are removed), a text that is no number, or ''.     *)
Num(n) == [t |-> "num", n |-> n]
Text == [t |-> "text", n |-> 0]
Empty == [t |-> "empty", n |-> 0]
Undefined == [t |-> "undefined", n |-> 0]

(* trade[col]: undefined when the row has no such key.                     *)
TradeField(trade, col) ==
    IF col \in DOMAIN trade.cells THEN trade.cells[col] ELSE Undefined

(* parseFloat(String(cell || '0').replace(/,/g, '')) || 0                  *)
ParseFloatOrZero(cell) == IF cell.t = "num" THEN cell.n ELSE 0

PercentColumn == "P&L %"

(* Column names that contain one of the P&L keywords, 'USD', and '%'.      *)
PnlKeywordColumns == {"P&L USD", "P&L USDT", "P&L %", "Profit", "platform"}
UsdColumns == {"P&L USD", "P&L USDT"}
PercentColumns == {"P&L %"}

IsPnlKey(col) == col \in PnlKeywordColumns
IsAmountKey(col) == col \in UsdColumns \/ col \notin PercentColumns

(* The rows of the input files: keys in header order, and the cells.       *)
RowWin ==
    [keys |-> <<"P&L USD", "P&L %">>,
     cells |-> ("P&L USD" :> Num(25 * USD) @@ "P&L %" :> Num(10))]
RowLoss ==
    [keys |-> <<"P&L USD", "P&L %">>,
     cells |-> ("P&L USD" :> Num(-12 * USD) @@ "P&L %" :> Num(-5))]
RowRaw ==
    [keys |-> <<"P&L USD", "P&L %">>,
     cells |-> ("P&L USD" :> Num(70000 * USD) @@ "P&L %" :> Empty)]
RowUsdt ==
    [keys |-> <<"P&L USDT", "P&L %">>,
     cells |-> ("P&L USDT" :> Num(30 * USD) @@ "P&L %" :> Text)]

Rows == {RowWin, RowLoss, RowRaw, RowUsdt}

(* A trade: its row and parsedDate, of which the model keeps the calendar  *)
(* day (the dateKey of buildDailySeries).                                  *)
Trade(row, day) == [day |-> day, keys |-> row.keys, cells |-> row.cells]

TradeSet == {Trade(r, d) : r \in Rows, d \in 1..MaxTrades}

(* this.trades after autoReadAllFilesAndCombine: not empty, sorted by      *)
(* parsedDate; consecutive trades close on the same or on the next day.    *)
IsSorted(ts) ==
    \A i \in 1..(Len(ts) - 1) : ts[i + 1].day - ts[i].day \in {0, 1}

TradeLists ==
    UNION {{ts \in [1..n -> TradeSet] : ts[1].day = 1 /\ IsSorted(ts)} :
           n \in 1..MaxTrades}

-----------------------------------------------------------------------------
(* Position sizing and the daily aggregation (buildDailySeries)            *)

(* calculatePositionSize without compounding: the percentage is taken of  *)
(* the initial capital.                                                    *)
CalculatePositionSize_NoCompounding(currentEquity) ==
    IF positionSizeType = "fixed"
    THEN positionSize
    ELSE (initialCapital * positionSize) \div 100

(* calculatePositionSize(currentEquity, tradeIndex)                        *)
CalculatePositionSize(currentEquity) ==
    IF positionSizeType = "fixed"
    THEN positionSize
    ELSE (currentEquity * positionSize) \div 100

(* The gross P&L with the precedence reversed: under fixed sizing an       *)
(* amount other than 0 is taken before the percentage.                     *)
ActualPnL_AmountFirst(stake, tvPnLUSD, tvPnLPercent) ==
    IF positionSizeType = "fixed" /\ tvPnLUSD # 0 THEN tvPnLUSD
    ELSE IF tvPnLPercent # 0 THEN (stake * tvPnLPercent) \div 100
    ELSE 0

(* The gross P&L of a trade: the if / else of buildDailySeries.            *)
ActualPnL(stake, tvPnLUSD, tvPnLPercent) ==
    IF tvPnLPercent # 0
    THEN (stake * tvPnLPercent) \div 100
    ELSE IF positionSizeType = "fixed" THEN tvPnLUSD ELSE 0

(* The commission charged once.                                            *)
Commission_OneSide(stake) == (stake * commissionRate) \div 10000

(* positionSize * this.commissionRate * 2                                  *)
Commission(stake) == (stake * commissionRate * 2) \div 10000

(* The P&L column of a row, NULL when the row has none ('throw').          *)
DetectPnlColumn(trade) ==
    LET pnlColumns == SelectSeq(trade.keys, IsPnlKey)
        found == SelectSeq(pnlColumns, IsAmountKey)
    IN  IF Len(pnlColumns) = 0 THEN NULL
        ELSE IF Len(found) > 0 THEN found[1] ELSE pnlColumns[1]

(* A dailyMap that never has the dateKey: every trade opens a record.      *)
IndexOfDate_PerTrade(daily, dateKey) == 0

(* The index of dateKey in the records (dailyMap with its order), or 0.    *)
IndexOfDate(daily, dateKey) ==
    IF \E j \in 1..Len(daily) : daily[j].date = dateKey
    THEN CHOOSE j \in 1..Len(daily) : daily[j].date = dateKey
    ELSE 0

(* What one iteration of the loop over the trades computes from the        *)
(* equity before the trade, the stake and the two parsed P&L fields.       *)
LedgerEntry(equityAtTradeStart, stake, tvPnLUSD, tvPnLPercent) ==
    LET netPnL == ActualPnL(stake, tvPnLUSD, tvPnLPercent) - Commission(stake)
    IN  [positionSize |-> stake, tvPnLUSD |-> tvPnLUSD,
         tvPnLPercent |-> tvPnLPercent,
         actualPnL |-> ActualPnL(stake, tvPnLUSD, tvPnLPercent),
         commission |-> Commission(stake), netPnL |-> netPnL,
         equityAtTradeStart |-> equityAtTradeStart,
         equityAfter |-> equityAtTradeStart + netPnL]

(* The update of dailyMap that opens a day at the equity after its first   *)
(* trade.                                                                  *)
PostToDay_StartAfterTrade(daily, j, dateKey, e) ==
    IF j = 0
    THEN Append(daily, [date |-> dateKey,
                        startEquity |-> e.equityAfter,
                        endEquity |-> e.equityAfter,
                        dailyPnL |-> e.netPnL,
                        tradeCount |-> 1])
    ELSE [daily EXCEPT ![j].endEquity = e.equityAfter,
                       ![j].dailyPnL = @ + e.netPnL,
                       ![j].tradeCount = @ + 1]

(* The update of dailyMap and order for a trade of day dateKey, daily[j]   *)
(* being the record of that day (j = 0: there is none yet).                *)
PostToDay(daily, j, dateKey, e) ==
    IF j = 0
    THEN Append(daily, [date |-> dateKey,
                        startEquity |-> e.equityAtTradeStart,
                        endEquity |-> e.equityAfter,
                        dailyPnL |-> e.netPnL,
                        tradeCount |-> 1])
    ELSE [daily EXCEPT ![j].endEquity = e.equityAfter,
                       ![j].dailyPnL = @ + e.netPnL,
                       ![j].tradeCount = @ + 1]

(* The end of an iteration.  acc holds the locals: currentEquity, the      *)
(* daily records, this.detectedPnlColumn, and ledger, which keeps what     *)
(* every iteration computed.                                               *)
PostEntry(acc, dateKey, column, e) ==
    [acc EXCEPT !.detected = column,
                !.currentEquity = e.equityAfter,
                !.ledger = Append(@, e),
                !.daily = PostToDay(@, IndexOfDate(@, dateKey), dateKey, e)]

(* The iteration for a trade, column being the P&L column in use.          *)
TradeStepWith(acc, trade, column) ==
    IF column = NULL THEN [acc EXCEPT !.threw = TRUE]
    ELSE PostEntry(acc, trade.day, column,
             LedgerEntry(acc.currentEquity,
                         CalculatePositionSize(acc.currentEquity),
                         ParseFloatOrZero(TradeField(trade, column)),
                         ParseFloatOrZero(TradeField(trade, PercentColumn))))

(* One iteration of the loop over the trades.                              *)
TradeStep(acc, trade) ==
    TradeStepWith(acc, trade,
        IF acc.detected = NULL THEN DetectPnlColumn(trade) ELSE acc.detected)

RECURSIVE TradeLoop(_, _, _)
TradeLoop(ts, i, acc) ==
    IF i > Len(ts) \/ acc.threw THEN acc
    ELSE TradeLoop(ts, i + 1, TradeStep(acc, ts[i]))

(* The record of a day as returned, with its dailyReturnPct.               *)
DailyRecord(r) ==
    [date |-> r.date, startEquity |-> r.startEquity, endEquity |-> r.endEquity,
     dailyPnL |-> r.dailyPnL, tradeCount |-> r.tradeCount,
     dailyReturnPct |-> IF r.startEquity > 0
                        THEN Frac(r.endEquity - r.startEquity, r.startEquity)
                        ELSE <<0, 1>>]

DailyRecordsOf(daily) == [j \in 1..Len(daily) |-> DailyRecord(daily[j])]

(* What buildDailySeries returns for the daily records it has built.       *)
Returned(records, totalTrades, capital, acc) ==
    [threw |-> acc.threw,
     dailyRecords |-> records,
     dailyReturnPctSeries |-> [j \in 1..Len(records) |-> records[j].dailyReturnPct],
     dailyReturnUSDSeries |-> [j \in 1..Len(records) |-> records[j].dailyPnL],
     totalTrades |-> totalTrades,
     totalDays |-> Len(records),
     finalEquity |-> IF Len(records) > 0 THEN records[Len(records)].endEquity
                     ELSE capital,
     detected |-> acc.detected,
     ledger |-> acc.ledger]

NoLocals(capital, detected) ==
    [threw |-> FALSE, currentEquity |-> capital, detected |-> detected,
     daily |-> <<>>, ledger |-> <<>>]

ReturnedOf(acc, totalTrades, capital) ==
    Returned(DailyRecordsOf(acc.daily), totalTrades, capital, acc)

(* buildDailySeries(ts, capital) on an instance whose detectedPnlColumn    *)
(* is detected.  The value holds what the call returns, threw (the call    *)
(* raised the error), the detectedPnlColumn it leaves in the instance,     *)
(* and the ledger of the loop.                                             *)
BuildDailySeries(ts, capital, detected) ==
    IF Len(ts) = 0
    THEN Returned(<<>>, 0, capital, NoLocals(capital, detected))
    ELSE ReturnedOf(TradeLoop(ts, 1, NoLocals(capital, detected)), Len(ts), capital)

-----------------------------------------------------------------------------
(* Period statistics (calculatePeriodStats)                                *)

(* A sort that is not stable: a trade is put before the trades of its day. *)
RECURSIVE InsertByDate_BeforeTies(_, _)
InsertByDate_BeforeTies(sorted, trade) ==
    IF Len(sorted) = 0 THEN <<trade>>
    ELSE IF sorted[Len(sorted)].day < trade.day THEN Append(sorted, trade)
    ELSE Append(InsertByDate_BeforeTies(SubSeq(sorted, 1, Len(sorted) - 1), trade),
                sorted[Len(sorted)])

(* periodTrades.sort((a, b) => a.parsedDate - b.parsedDate): a stable      *)
(* insertion of each trade behind the trades that are not later.           *)
RECURSIVE InsertByDate(_, _)
InsertByDate(sorted, trade) ==
    IF Len(sorted) = 0 THEN <<trade>>
    ELSE IF sorted[Len(sorted)].day <= trade.day THEN Append(sorted, trade)
    ELSE Append(InsertByDate(SubSeq(sorted, 1, Len(sorted) - 1), trade),
                sorted[Len(sorted)])

RECURSIVE SortByDate(_)
SortByDate(ts) ==
    IF Len(ts) = 0 THEN <<>>
    ELSE InsertByDate(SortByDate(SubSeq(ts, 1, Len(ts) - 1)), ts[Len(ts)])

(* The scan for the maximum drawdown: peak and maxDrawdownValue after the  *)
(* records from i on.                                                      *)
RECURSIVE DrawdownScan(_, _, _)
DrawdownScan(records, i, acc) ==
    IF i > Len(records) THEN acc
    ELSE LET peak == IF records[i].endEquity > acc.peak
                     THEN records[i].endEquity ELSE acc.peak
             dd == peak - records[i].endEquity
         IN  DrawdownScan(records, i + 1,
                 [peak |-> peak,
                  maxDrawdownValue |-> IF dd > acc.maxDrawdownValue THEN dd
                                       ELSE acc.maxDrawdownValue])

(* The peak the maximum drawdown is divided by: the peak once the scan     *)
(* has ended.                                                              *)
MddPeak(records) ==
    DrawdownScan(records, 1, [peak |-> records[1].endEquity,
                              maxDrawdownValue |-> 0]).peak

MaxDrawdownValue(records) ==
    DrawdownScan(records, 1, [peak |-> records[1].endEquity,
                              maxDrawdownValue |-> 0]).maxDrawdownValue

MddOf(maxDrawdownValue, peakEquity) ==
    IF peakEquity > 0 THEN Fin(Frac(maxDrawdownValue * 100, peakEquity)) ELSE Zero

(* mdd, in percent.                                                        *)
Mdd(records) == MddOf(MaxDrawdownValue(records), MddPeak(records))

(* Math.pow(finalEquity / capital, 1 / durationInYears) for a duration of  *)
(* days calendar days less one second.  The power exceeds the largest      *)
(* double when the ratio is at least 2^(1024 * durationInYears), which     *)
(* lies between 6^days and 7^days.                                         *)
PowClass(finalEquity, capital, days) ==
    IF DivPower(finalEquity, 7, days) >= capital THEN "inf"
    ELSE IF DivPower(finalEquity, 6, days) >= capital THEN "edge"
    ELSE "fin"

(* annualReturn with the loss of the whole capital tested first.           *)
AnnualReturn_LossFirst(finalEquity, capital, days) ==
    IF finalEquity <= 0 THEN Fin(<<-100, 1>>)
    ELSE IF days > 0 /\ capital > 0
    THEN [k |-> PowClass(finalEquity, capital, days),
          v |-> <<finalEquity, capital, days>>]
    ELSE Zero

(* annualReturn before it is returned.                                     *)
AnnualReturn(finalEquity, capital, days) ==
    IF days > 0 /\ capital > 0
    THEN IF finalEquity > 0
         THEN [k |-> PowClass(finalEquity, capital, days),
               v |-> <<finalEquity, capital, days>>]
         ELSE Fin(<<-100, 1>>)
    ELSE Zero

(* annualReturn / mdd for mdd > 0.                                         *)
Quotient(a, m) ==
    IF a.k = "fin" THEN Fin(a.v \o m.v)
    ELSE [k |-> a.k, v |-> a.v \o m.v]

CalmarRatio(annualReturn, mdd, totalReturn) ==
    IF mdd.v[1] > 0 THEN Quotient(annualReturn, mdd)
    ELSE IF totalReturn > 0 THEN Infinity ELSE Zero

(* isNaN(x) ? 0 : x                                                        *)
ZeroIfNaN(x) == IF x.k = "nan" THEN Zero ELSE x

(* isFinite(x) ? x : 0                                                     *)
ZeroUnlessFinite(x) == IF x.k \in {"nan", "inf"} THEN Zero ELSE x

WinningDays(records) == Cardinality({j \in 1..Len(records) : records[j].dailyPnL > 0})

(* The statistics of no trade, or of no day.                               *)
NullStats(numTrades) ==
    [numTrades |-> numTrades, numDays |-> 0, totalReturn |-> Zero,
     annualReturn |-> Zero, calmarRatio |-> Zero, mdd |-> Zero, winRate |-> Zero]

(* The statistics of the days of b, the value of buildDailySeries.         *)
Metrics(b, capital, annualReturn, mdd) ==
    [numTrades |-> b.totalTrades,
     numDays |-> b.totalDays,
     totalReturn |-> Fin(<<b.finalEquity - capital, 1>>),
     annualReturn |-> ZeroIfNaN(annualReturn),
     calmarRatio |-> ZeroUnlessFinite(
                         CalmarRatio(annualReturn, mdd, b.finalEquity - capital)),
     mdd |-> ZeroIfNaN(mdd),
     winRate |-> ZeroIfNaN(Fin(Frac(WinningDays(b.dailyRecords) * 100, b.totalDays)))]

(* The calendar days from the first date to the end of the last date.      *)
DurationDays(records) == records[Len(records)].date - records[1].date + 1

StatsOfBuild(sorted, b, capital) ==
    [threw |-> b.threw, sorted |-> sorted, detected |-> b.detected,
     value |-> IF b.threw THEN NullStats(0)
               ELSE IF b.totalDays = 0 THEN NullStats(b.totalTrades)
               ELSE Metrics(b, capital,
                        AnnualReturn(b.finalEquity, capital,
                                     DurationDays(b.dailyRecords)),
                        Mdd(b.dailyRecords))]

StatsOfSorted(sorted, capital, detected) ==
    StatsOfBuild(sorted, BuildDailySeries(sorted, capital, detected), capital)

(* calculatePeriodStats(periodTrades, capital) on an instance whose        *)
(* detectedPnlColumn is detected: sorted is periodTrades as the call       *)
(* leaves it, detected the column it leaves in the instance, threw tells   *)
(* that buildDailySeries raised its error, value is what is returned.      *)
CalculatePeriodStats(periodTrades, capital, detected) ==
    IF Len(periodTrades) = 0
    THEN [threw |-> FALSE, sorted |-> periodTrades, detected |-> detected,
          value |-> NullStats(0)]
    ELSE StatsOfSorted(SortByDate(periodTrades), capital, detected)

-----------------------------------------------------------------------------
(* The ratios of the daily series (calculatePeriodStats, lines 585-604)    *)

(* x + y and x - y over the least common denominator                       *)
FAdd(x, y) ==
    Frac(x[1] * (y[2] \div GCD(x[2], y[2])) + y[1] * (x[2] \div GCD(x[2], y[2])),
         x[2] * (y[2] \div GCD(x[2], y[2])))

FMinus(x, y) == FAdd(x, <<0 - y[1], y[2]>>)

FSquare(x) == <<x[1] * x[1], x[2] * x[2]>>

(* x / n for n > 0                                                         *)
FOver(x, n) == Frac(x[1], x[2] * n)

RECURSIVE FSum(_)
FSum(fs) == IF Len(fs) = 0 THEN <<0, 1>> ELSE FAdd(fs[1], FSum(Tail(fs)))

RECURSIVE IntSum(_)
IntSum(xs) == IF Len(xs) = 0 THEN 0 ELSE xs[1] + IntSum(Tail(xs))

(* avgReturnPct                                                            *)
AvgReturnPct(pcts) == FOver(FSum(pcts), Len(pcts))

(* stdDevPct squared                                                       *)
VariancePct(pcts, avg) ==
    FOver(FSum([j \in 1..Len(pcts) |-> FSquare(FMinus(pcts[j], avg))]), Len(pcts))

(* avg / sqrt(square), for square > 0: the quotient is kept as the         *)
(* fraction avg and the fraction square.                                   *)
OverRoot(avg, square) ==
    Fin(<<avg[1], avg[2], square[1], square[2]>>)

(* The doubles of the mean.  A natural number is the sequence of its bits,  *)
(* the lowest first; a double above 0 is m * 2^e with a mantissa m of      *)
(* DoublePrecision bits.  Every operation rounds its exact result to the   *)
(* nearest mantissa, and to the even one of two that are equally near.     *)
(* The exponents of the returns are far from the range where a double      *)
(* overflows or loses precision.                                           *)
DoublePrecision == 53

RECURSIVE BitsOf(_)
BitsOf(n) == IF n = 0 THEN <<>> ELSE <<n % 2>> \o BitsOf(n \div 2)

BitAt(a, i) == IF i \in DOMAIN a THEN a[i] ELSE 0

ShiftLeft(a, k) == [j \in 1..k |-> 0] \o a

RECURSIVE Trim(_)
Trim(a) ==
    IF Len(a) > 0 /\ a[Len(a)] = 0 THEN Trim(SubSeq(a, 1, Len(a) - 1)) ELSE a

(* Sums and quotients are computed on limbs of LimbBits bits.              *)
LimbBits == 10

RECURSIVE Limb(_, _, _)
Limb(a, offset, j) ==
    IF j > LimbBits THEN 0 ELSE BitAt(a, offset + j) + 2 * Limb(a, offset, j + 1)

LimbsOf(a) ==
    [i \in 1..((Len(a) + LimbBits - 1) \div LimbBits) |->
        Limb(a, LimbBits * (i - 1), 1)]

BitsOfLimbs(ls) ==
    Trim([j \in 1..(LimbBits * Len(ls)) |->
             (ls[(j - 1) \div LimbBits + 1] \div 2^((j - 1) % LimbBits)) % 2])

LimbAt(ls, i) == IF i \in DOMAIN ls THEN ls[i] ELSE 0

RECURSIVE AddFrom(_, _, _, _)
AddFrom(a, b, i, carry) ==
    IF i > Len(a) /\ i > Len(b) THEN <<carry>>
    ELSE <<(LimbAt(a, i) + LimbAt(b, i) + carry) % 2^LimbBits>>
             \o AddFrom(a, b, i + 1,
                        (LimbAt(a, i) + LimbAt(b, i) + carry) \div 2^LimbBits)

AddBits(a, b) == BitsOfLimbs(AddFrom(LimbsOf(a), LimbsOf(b), 1, 0))

(* a \div n and a % n by long division, from limb i down; r is the         *)
(* remainder and q the quotient of the limbs above i.                      *)
RECURSIVE DivFrom(_, _, _, _, _)
DivFrom(a, n, i, r, q) ==
    IF i = 0 THEN [q |-> BitsOfLimbs(q), r |-> r]
    ELSE DivFrom(a, n, i - 1, (r * 2^LimbBits + a[i]) % n,
                 <<(r * 2^LimbBits + a[i]) \div n>> \o q)

DivBits(a, n) == DivFrom(LimbsOf(a), n, Len(LimbsOf(a)), 0, <<>>)

(* The mantissa kept is rounded up: the first bit dropped is 1, and a      *)
(* lower bit (or sticky, what a division left over) is set or the          *)
(* mantissa is odd.                                                        *)
RoundsUp(a, sticky, dropped) ==
    /\ a[dropped] = 1
    /\ \/ sticky
       \/ \E i \in 1..(dropped - 1) : a[i] = 1
       \/ a[dropped + 1] = 1

(* The double of mantissa m, which has DoublePrecision bits or one more    *)
(* (then it is a power of 2).                                              *)
Normal(m, e) ==
    IF Len(m) > DoublePrecision
    THEN [m |-> SubSeq(m, 2, Len(m)), e |-> e + 1]
    ELSE [m |-> m, e |-> e]

(* The double nearest to (a + f) * 2^e, f = 0 or 0 < f < 1 when sticky.    *)
RoundBits(a, sticky, e) ==
    IF Len(a) <= DoublePrecision
    THEN [m |-> ShiftLeft(a, DoublePrecision - Len(a)),
          e |-> e - (DoublePrecision - Len(a))]
    ELSE IF RoundsUp(a, sticky, Len(a) - DoublePrecision)
    THEN Normal(AddBits(SubSeq(a, Len(a) - DoublePrecision + 1, Len(a)), <<1>>),
                e + Len(a) - DoublePrecision)
    ELSE [m |-> SubSeq(a, Len(a) - DoublePrecision + 1, Len(a)),
          e |-> e + Len(a) - DoublePrecision]

(* The double of the quotient division left of bits * 2^e.                 *)
RoundQuotient(division, e) == RoundBits(division.q, division.r # 0, e)

(* n / d for whole amounts n, d > 0: (endEquity - startEquity) / startEquity *)
DoubleOf(n, d) ==
    RoundQuotient(DivBits(ShiftLeft(BitsOf(n), DoublePrecision + 32), d),
                  0 - (DoublePrecision + 32))

(* x + y for doubles x >= y > 0                                            *)
AddDouble(x, y) ==
    RoundBits(AddBits(ShiftLeft(x.m, x.e - y.e), y.m), FALSE, y.e)

(* x / n for a double x > 0 and n > 0                                      *)
OverDouble(x, n) ==
    RoundQuotient(DivBits(ShiftLeft(x.m, 32), n), x.e - 32)

(* dailyReturnPctSeries.reduce((s, r) => s + r, 0) of k days that return x *)
RECURSIVE SumDouble(_, _)
SumDouble(x, k) == IF k = 1 THEN x ELSE AddDouble(SumDouble(x, k - 1), x)

(* avgReturnPct of the days pcts, which all return the same value that is  *)
(* not 0, as the double of its magnitude.                                  *)
MeanOfEqual(pcts) ==
    OverDouble(SumDouble(DoubleOf(Abs(pcts[1][1]), pcts[1][2]), Len(pcts)),
               Len(pcts))

(* stdDevPct === 0.  Days that do not all return the same value have a     *)
(* standard deviation above 0.  When they do, every r - avgReturnPct is    *)
(* the same difference of two doubles, and stdDevPct is 0 when the mean    *)
(* is the double the days return.                                          *)
StdDevIsZero(pcts, variance) ==
    /\ variance[1] = 0
    /\ \/ pcts[1][1] = 0
       \/ MeanOfEqual(pcts) = DoubleOf(Abs(pcts[1][1]), pcts[1][2])

(* avgReturnPct / stdDevPct when stdDevPct is the rounding error of the    *)
(* mean, of the order 2^e: the mean and e.                                 *)
OverRounding(avg, mean) == Fin(<<avg[1], avg[2], mean.e>>)

(* stdDevPct === 0 ? 0 : (avgReturnPct / stdDevPct)                        *)
SharpeRatio(pcts, avg, variance) ==
    IF StdDevIsZero(pcts, variance) THEN Zero
    ELSE IF variance[1] = 0 THEN OverRounding(avg, MeanOfEqual(pcts))
    ELSE OverRoot(avg, variance)

NegativeReturns(pcts) == SelectSeq(pcts, LAMBDA r : r[1] < 0)

(* downsideDev squared                                                     *)
DownsideSquare(negativeReturns) ==
    IF Len(negativeReturns) > 0
    THEN FOver(FSum([j \in 1..Len(negativeReturns) |->
                        FSquare(negativeReturns[j])]),
               Len(negativeReturns))
    ELSE <<0, 1>>

(* The Sortino ratio that is 0 for every mean that is not positive.        *)
SortinoRatio_NoNegative(avg, downsideSquare) ==
    IF downsideSquare[1] = 0 \/ avg[1] <= 0
    THEN (IF avg[1] > 0 THEN Infinity ELSE Zero)
    ELSE OverRoot(avg, downsideSquare)

SortinoRatio(avg, downsideSquare) ==
    IF downsideSquare[1] = 0
    THEN (IF avg[1] > 0 THEN Infinity ELSE Zero)
    ELSE OverRoot(avg, downsideSquare)

Gains(usds) == IntSum(SelectSeq(usds, LAMBDA r : r > 0))

LossesAbs(usds) == Abs(IntSum(SelectSeq(usds, LAMBDA r : r < 0)))

OmegaRatio(gains, lossesAbs) ==
    IF lossesAbs = 0
    THEN (IF gains > 0 THEN Infinity ELSE Fin(<<1, 1>>))
    ELSE Fin(Frac(gains, lossesAbs))

(* [...dailyReturnUSDSeries].sort((a, b) => a - b)                         *)
RECURSIVE InsertAscending(_, _)
InsertAscending(sorted, x) ==
    IF Len(sorted) = 0 THEN <<x>>
    ELSE IF sorted[Len(sorted)] <= x THEN Append(sorted, x)
    ELSE Append(InsertAscending(SubSeq(sorted, 1, Len(sorted) - 1), x),
                sorted[Len(sorted)])

RECURSIVE SortAscending(_)
SortAscending(xs) ==
    IF Len(xs) = 0 THEN <<>>
    ELSE InsertAscending(SortAscending(SubSeq(xs, 1, Len(xs) - 1)), xs[Len(xs)])

(* A varIndex that stays at the smallest value.                            *)
VarIndex_First(n) == 0

(* Math.floor(sortedDailyUSD.length * 0.05)                                *)
VarIndex(n) == (n * 5) \div 100

(* sortedDailyUSD[varIndex] || 0                                           *)
Var95(sortedDailyUSD) ==
    IF VarIndex(Len(sortedDailyUSD)) + 1 \in DOMAIN sortedDailyUSD
    THEN Fin(<<sortedDailyUSD[VarIndex(Len(sortedDailyUSD)) + 1], 1>>)
    ELSE Zero

(* sortedDailyUSD.slice(0, varIndex + 1)                                   *)
CvarSlice(sortedDailyUSD) ==
    SubSeq(sortedDailyUSD, 1,
           IF VarIndex(Len(sortedDailyUSD)) + 1 <= Len(sortedDailyUSD)
           THEN VarIndex(Len(sortedDailyUSD)) + 1 ELSE Len(sortedDailyUSD))

Cvar95(cvarSlice) ==
    IF Len(cvarSlice) > 0
    THEN Fin(Frac(IntSum(cvarSlice), Len(cvarSlice)))
    ELSE Zero

(* The ratios as returned, avg being avgReturnPct.                         *)
Ratios(pcts, usds, avg) ==
    [sharpeRatio |-> ZeroIfNaN(SharpeRatio(pcts, avg, VariancePct(pcts, avg))),
     sortinoRatio |-> ZeroUnlessFinite(
                          SortinoRatio(avg, DownsideSquare(NegativeReturns(pcts)))),
     omegaRatio |-> ZeroUnlessFinite(OmegaRatio(Gains(usds), LossesAbs(usds))),
     var95 |-> ZeroIfNaN(Var95(SortAscending(usds))),
     cvar95 |-> ZeroIfNaN(Cvar95(CvarSlice(SortAscending(usds))))]

(* The ratios of nullStats.                                                *)
NullRatios ==
    [sharpeRatio |-> Zero, sortinoRatio |-> Zero, omegaRatio |-> Zero,
     var95 |-> Zero, cvar95 |-> Zero]

(* calculatePeriodStats from the value b of buildDailySeries on: every     *)
(* statistic of the returned record.                                       *)
DailyStats(b, capital) ==
    IF b.totalDays = 0
    THEN NullRatios @@ NullStats(b.totalTrades)
    ELSE Ratios(b.dailyReturnPctSeries, b.dailyReturnUSDSeries,
                AvgReturnPct(b.dailyReturnPctSeries))
         @@ Metrics(b, capital,
                    AnnualReturn(b.finalEquity, capital, DurationDays(b.dailyRecords)),
                    Mdd(b.dailyRecords))

-----------------------------------------------------------------------------
(* Drawdown detector (generateDrawdownEventsFromDaily)                     *)

(* diffDays(a, b) on calendar days.                                        *)
DiffDays(a, b) == IF b - a > 0 THEN b - a ELSE 0

(* currentDrawdown is <<>> when null, and <<d>> when the drawdown d is     *)
(* open.                                                                   *)
IsOpen(st) == Len(st.currentDrawdown) > 0

(* The locals before the loop.                                             *)
ScanStart(records) ==
    [i |-> 1, peakEquity |-> records[1].endEquity, peakDate |-> records[1].date,
     currentDrawdown |-> <<>>, events |-> <<>>]

(* The event pushed when the equity exceeds the peak.                      *)
EventAbovePeak(d, date, eq) ==
    [endDate |-> date, recovered |-> FALSE, recoveryEquity |-> eq,
     fullDurationDays |-> DiffDays(d.startDate, date)] @@ d

(* The event pushed when the equity equals the peak.                       *)
EventAtPeak(d, date, eq) ==
    [startDate |-> d.startDate, peakEquity |-> d.peakEquity,
     troughEquity |-> d.troughEquity, troughDate |-> d.troughDate,
     endDate |-> date, recovered |-> TRUE, recoveryEquity |-> eq,
     depthUSD |-> d.peakEquity - d.troughEquity,
     depthPct |-> Frac((d.peakEquity - d.troughEquity) * 100, d.peakEquity),
     toTroughDays |-> DiffDays(d.startDate, d.troughDate),
     fullDurationDays |-> DiffDays(d.startDate, date)]

(* A terminal event that takes the trough for the equity it ends at.       *)
EventAtEnd_AtTrough(d, last) ==
    [startDate |-> d.startDate, peakEquity |-> d.peakEquity,
     troughEquity |-> d.troughEquity, troughDate |-> d.troughDate,
     endDate |-> last.date, recovered |-> FALSE,
     recoveryEquity |-> d.troughEquity,
     depthUSD |-> d.peakEquity - d.troughEquity,
     depthPct |-> Frac((d.peakEquity - d.troughEquity) * 100, d.peakEquity),
     toTroughDays |-> DiffDays(d.startDate, d.troughDate),
     fullDurationDays |-> DiffDays(d.startDate, last.date)]

(* The event pushed for the drawdown that is open after the last day.      *)
EventAtEnd(d, last) ==
    [startDate |-> d.startDate, peakEquity |-> d.peakEquity,
     troughEquity |-> d.troughEquity, troughDate |-> d.troughDate,
     endDate |-> last.date, recovered |-> FALSE,
     recoveryEquity |-> last.endEquity,
     depthUSD |-> d.peakEquity - d.troughEquity,
     depthPct |-> Frac((d.peakEquity - d.troughEquity) * 100, d.peakEquity),
     toTroughDays |-> DiffDays(d.startDate, d.troughDate),
     fullDurationDays |-> DiffDays(d.startDate, last.date)]

(* A completion that measures the depth down from the equity the event     *)
(* ended at.                                                               *)
Augment_FromRecovery(ev) ==
    IF "depthUSD" \in DOMAIN ev THEN ev
    ELSE [depthUSD |-> ev.recoveryEquity - ev.troughEquity,
          depthPct |-> Frac((ev.peakEquity - ev.troughEquity) * 100, ev.peakEquity),
          toTroughDays |-> DiffDays(ev.startDate, ev.troughDate),
          fullDurationDays |-> DiffDays(ev.startDate, ev.endDate)] @@ ev

(* events.forEach: the fields an event pushed without depthUSD still lacks. *)
Augment(ev) ==
    IF "depthUSD" \in DOMAIN ev THEN ev
    ELSE [depthUSD |-> ev.peakEquity - ev.troughEquity,
          depthPct |-> Frac((ev.peakEquity - ev.troughEquity) * 100, ev.peakEquity),
          toTroughDays |-> DiffDays(ev.startDate, ev.troughDate),
          fullDurationDays |-> DiffDays(ev.startDate, ev.endDate)] @@ ev

(* One iteration of the loop over the daily records.                       *)
ScanDay(st, rec) ==
    LET eq == rec.endEquity
        date == rec.date
        next == [st EXCEPT !.i = @ + 1]
    IN  IF eq > st.peakEquity
        THEN [next EXCEPT
                !.events = IF IsOpen(st)
                           THEN Append(@, EventAbovePeak(st.currentDrawdown[1], date, eq))
                           ELSE @,
                !.currentDrawdown = <<>>,
                !.peakEquity = eq,
                !.peakDate = date]
        ELSE IF eq < st.peakEquity
        THEN IF ~IsOpen(st)
             THEN [next EXCEPT !.currentDrawdown =
                      <<[startDate |-> st.peakDate, peakEquity |-> st.peakEquity,
                         troughEquity |-> eq, troughDate |-> date]>>]
             ELSE IF eq < st.currentDrawdown[1].troughEquity
             THEN [next EXCEPT !.currentDrawdown[1].troughEquity = eq,
                               !.currentDrawdown[1].troughDate = date]
             ELSE next
        ELSE IF IsOpen(st)
             THEN [next EXCEPT
                     !.events = Append(@, EventAtPeak(st.currentDrawdown[1], date, eq)),
                     !.currentDrawdown = <<>>]
             ELSE next

(* The code after the loop: the open drawdown is pushed, every event is    *)
(* augmented.                                                              *)
ScanEnd(st, records) ==
    LET all == IF IsOpen(st)
               THEN Append(st.events,
                           EventAtEnd(st.currentDrawdown[1], records[Len(records)]))
               ELSE st.events
    IN  [st EXCEPT !.events = [j \in 1..Len(all) |-> Augment(all[j])]]

(* The locals before any call.                                             *)
NoScan ==
    [i |-> 0, peakEquity |-> 0, peakDate |-> 0, currentDrawdown |-> <<>>,
     events |-> <<>>]

-----------------------------------------------------------------------------
(* Period windows (calculatePeriods)                                       *)

MaxPeriodLength == 2

(* 24 * 60 * 60 * 1000 ms: a parsedDate is counted in half days.           *)
DayMs == 2

PeriodTypes == {"day", "week", "month"}

(* intervalMs of the switch; 0 stands for the default branch, which        *)
(* throws.                                                                 *)
IntervalMs(periodType, periodLength) ==
    IF periodType = "day" THEN periodLength * DayMs
    ELSE IF periodType = "week" THEN periodLength * 7 * DayMs
    ELSE IF periodType = "month" THEN periodLength * 30 * DayMs
    ELSE 0

(* The filter with the end of the window included.                         *)
PeriodTradesOf_EndIncluded(ts, currentStart, currentEnd) ==
    SelectSeq(ts, LAMBDA trade : /\ trade.parsedDate >= currentStart
                                 /\ trade.parsedDate <= currentEnd)

(* this.trades.filter(trade => trade.parsedDate >= currentStart &&         *)
(*                             trade.parsedDate < currentEnd)              *)
PeriodTradesOf(ts, currentStart, currentEnd) ==
    SelectSeq(ts, LAMBDA trade : /\ trade.parsedDate >= currentStart
                                 /\ trade.parsedDate < currentEnd)

(* A period that ends with its last trade.                                 *)
Period_EndAtLastTrade(index, currentStart, currentEnd, periodTrades) ==
    [index |-> index, startDate |-> currentStart,
     endDate |-> periodTrades[Len(periodTrades)].parsedDate,
     trades |-> periodTrades]

Period(index, currentStart, currentEnd, periodTrades) ==
    [index |-> index, startDate |-> currentStart, endDate |-> currentEnd,
     trades |-> periodTrades]

NoWalk ==
    [pc |-> "idle", periodType |-> NULL, intervalMs |-> 0, startDate |-> 0,
     endDate |-> 0, currentStart |-> 0, periodIndex |-> 1, periods |-> <<>>]

(* The locals when the loop is entered, or the call has thrown.            *)
WalkStart(ts, periodType, periodLength) ==
    IF Len(ts) = 0 \/ periodType \notin PeriodTypes
    THEN [NoWalk EXCEPT !.pc = "threw", !.periodType = periodType]
    ELSE [pc |-> "loop",
          periodType |-> periodType,
          intervalMs |-> IntervalMs(periodType, periodLength),
          startDate |-> ts[1].parsedDate,
          endDate |-> ts[Len(ts)].parsedDate,
          currentStart |-> ts[1].parsedDate,
          periodIndex |-> 1,
          periods |-> <<>>]

(* The loop left as soon as the window starts at the last trade.          *)
InWalk_Strict(currentStart, endDate) == currentStart < endDate

(* while (currentStart <= endDate)                                         *)
InWalk(currentStart, endDate) == currentStart <= endDate

(* The loop body for the window that ends at currentEnd and holds          *)
(* periodTrades.                                                           *)
WindowOf(w, currentEnd, periodTrades) ==
    IF Len(periodTrades) > 0
    THEN [w EXCEPT !.periods = Append(@, Period(w.periodIndex, w.currentStart,
                                                 currentEnd, periodTrades)),
                   !.periodIndex = @ + 1,
                   !.currentStart = currentEnd]
    ELSE [w EXCEPT !.currentStart = currentEnd]

WalkWindow(w, ts) ==
    WindowOf(w, w.currentStart + w.intervalMs,
             PeriodTradesOf(ts, w.currentStart, w.currentStart + w.intervalMs))

(* The loop from the window of w on, and the locals at the return.         *)
RECURSIVE WalkLoop(_, _)
WalkLoop(w, ts) ==
    IF InWalk(w.currentStart, w.endDate) THEN WalkLoop(WalkWindow(w, ts), ts)
    ELSE [w EXCEPT !.pc = "returned"]

(* calculatePeriods(periodType, periodLength) as a whole: the locals when  *)
(* it returns or throws.                                                   *)
CalculatePeriods(ts, periodType, periodLength) ==
    IF WalkStart(ts, periodType, periodLength).pc = "threw"
    THEN WalkStart(ts, periodType, periodLength)
    ELSE WalkLoop(WalkStart(ts, periodType, periodLength), ts)

(* No call of calculatePeriods yet.                                        *)
NoPeriods == periods = <<>> /\ walk = NoWalk /\ heatmapData = <<>>

-----------------------------------------------------------------------------
(* Distribution bins (generatePnLDistributionData,                         *)
(* generateDrawdownDistributionData)                                       *)
(*                                                                         *)
(* With n values of sum S, the deviation of x is kept as n * x - S, that   *)
(* is n * (x - mean), and the standard deviation by the sum Q of the       *)
(* squared deviations: n * stdDev = sqrt(Q / n).  An amount                *)
(* mean + q * stdDev is the record of its mean and of the fraction q.      *)

MaxSample == 3

DefaultBinSize == <<1, 10>>

RECURSIVE Sum(_)
Sum(xs) == IF Len(xs) = 0 THEN 0 ELSE xs[1] + Sum(Tail(xs))

(* n * (x - mean)                                                          *)
Deviation(xs, x) == Len(xs) * x - Sum(xs)

Squares(xs, sum) == [j \in 1..Len(xs) |-> (Len(xs) * xs[j] - sum) * (Len(xs) * xs[j] - sum)]

(* n^3 * variance                                                          *)
SquaredDeviations(xs) == Sum(Squares(xs, Sum(xs)))

(* stdDev < 1e-6, stdDev < 1e-9: of amounts in 1/1000 USD, the standard    *)
(* deviation is 0 or above 1e-4 USD.                                       *)
IsNegligible(q) == q = 0

MinOf(xs) == CHOOSE x \in {xs[j] : j \in 1..Len(xs)} : \A j \in 1..Len(xs) : x <= xs[j]
MaxOf(xs) == CHOOSE x \in {xs[j] : j \in 1..Len(xs)} : \A j \in 1..Len(xs) : x >= xs[j]

(* a * sqrt(q / n) <= c                                                    *)
LeqStdDevs(a, c, q, n) ==
    IF a <= 0 /\ c >= 0 THEN TRUE
    ELSE IF a > 0 /\ c < 0 THEN FALSE
    ELSE IF a > 0 THEN a * a * q <= c * c * n
    ELSE a * a * q >= c * c * n

(* The positions, in bins, a value of n can lie at.                        *)
PosRange(n, b) == (0 - (n * b[2] + 1))..(n * b[2] + 1)

(* Math.floor(d / stdDev / b) for the deviation dev = n * d.               *)
FloorPos(dev, b, q, n) ==
    CHOOSE k \in PosRange(n, b) :
        /\ LeqStdDevs(k * b[1], dev * b[2], q, n)
        /\ ~LeqStdDevs((k + 1) * b[1], dev * b[2], q, n)

(* Math.ceil(d / stdDev / b)                                               *)
CeilPos(dev, b, q, n) ==
    CHOOSE k \in PosRange(n, b) :
        /\ LeqStdDevs(0 - k * b[1], 0 - dev * b[2], q, n)
        /\ ~LeqStdDevs(0 - (k - 1) * b[1], 0 - dev * b[2], q, n)

(* minStdDev rounded up.                                                   *)
MinStdDev_Ceil(xs, b) ==
    CeilPos(Deviation(xs, MinOf(xs)), b, SquaredDeviations(xs), Len(xs))

(* minStdDev and maxStdDev, in bins.                                       *)
MinStdDev(xs, b) ==
    FloorPos(Deviation(xs, MinOf(xs)), b, SquaredDeviations(xs), Len(xs))

MaxStdDev(xs, b) ==
    CeilPos(Deviation(xs, MaxOf(xs)), b, SquaredDeviations(xs), Len(xs))

Amount(mean, stdDevs) == [mean |-> mean, stdDevs |-> stdDevs]

(* The bin pushed for stdDevPos = k * b.                                   *)
Bin(mean, k, b) ==
    [binStart |-> Amount(mean, Frac(k * b[1], b[2])),
     binEnd |-> Amount(mean, Frac((k + 1) * b[1], b[2])),
     binCenter |-> Amount(mean, Frac((2 * k + 1) * b[1], 2 * b[2])),
     count |-> 0,
     percentage |-> 0,
     standardDeviations |-> Frac((2 * k + 1) * b[1], 2 * b[2])]

(* A single bin that counts one value of the sample.                       *)
SingleBin_OneCounted(mean, n) ==
    [binStart |-> [mean |-> mean, stdDevs |-> <<0, 1>>],
     binEnd |-> [mean |-> mean, stdDevs |-> <<0, 1>>],
     binCenter |-> [mean |-> mean, stdDevs |-> <<0, 1>>],
     count |-> 1,
     percentage |-> (2 * 1000 + n) \div (2 * n),
     standardDeviations |-> <<0, 1>>]

(* The bin of a sample whose standard deviation is negligible.             *)
SingleBin(mean, n) ==
    [binStart |-> Amount(mean, <<0, 1>>),
     binEnd |-> Amount(mean, <<0, 1>>),
     binCenter |-> Amount(mean, <<0, 1>>),
     count |-> n,
     percentage |-> 1000,
     standardDeviations |-> <<0, 1>>]

(* for (stdDevPos = minStdDev; stdDevPos <= maxStdDev; ...)                *)
EmptyBins(mean, minStdDev, maxStdDev, b) ==
    [j \in 1..(maxStdDev - minStdDev + 1) |-> Bin(mean, minStdDev + j - 1, b)]

(* binIndex, clamped to the list of len bins.                              *)
BinIndex(stdDevFromMean, minStdDev, len) ==
    IF stdDevFromMean - minStdDev >= len THEN len - 1
    ELSE IF stdDevFromMean - minStdDev < 0 THEN 0
    ELSE stdDevFromMean - minStdDev

(* A count that marks the bin instead of incrementing it.                  *)
Counted_Once(bin) == [bin EXCEPT !.count = 1]

(* bins[binIndex].count++                                                  *)
Counted(bin) == [bin EXCEPT !.count = @ + 1]

(* if (bins[binIndex]) bins[binIndex].count++, for the 0-based binIndex.   *)
CountAt(bs, binIndex) ==
    IF binIndex + 1 \in DOMAIN bs
    THEN [bs EXCEPT ![binIndex + 1] = Counted(@)]
    ELSE bs

(* returns.forEach(...) from the value j on.                               *)
RECURSIVE CountSample(_, _, _, _, _, _)
CountSample(xs, j, b, q, minStdDev, bs) ==
    IF j > Len(xs) THEN bs
    ELSE CountSample(xs, j + 1, b, q, minStdDev,
             CountAt(bs, BinIndex(FloorPos(Deviation(xs, xs[j]), b, q, Len(xs)),
                                  minStdDev, Len(bs))))

(* ((count / total) * 100).toFixed(1), in tenths of a percent.             *)
Percentage(count, total) == (2 * 1000 * count + total) \div (2 * total)

WithPercentage(bs, total) ==
    [j \in 1..Len(bs) |-> [bs[j] EXCEPT !.percentage = Percentage(bs[j].count, total)]]

(* a.binCenter - b.binCenter <= 0, for bins of one sample.                 *)
CenterLeq(x, y) ==
    x.binCenter.stdDevs[1] * y.binCenter.stdDevs[2]
        <= y.binCenter.stdDevs[1] * x.binCenter.stdDevs[2]

(* bins.sort((a, b) => a.binCenter - b.binCenter)                          *)
RECURSIVE InsertByCenter(_, _)
InsertByCenter(sorted, bin) ==
    IF Len(sorted) = 0 THEN <<bin>>
    ELSE IF CenterLeq(sorted[Len(sorted)], bin) THEN Append(sorted, bin)
    ELSE Append(InsertByCenter(SubSeq(sorted, 1, Len(sorted) - 1), bin),
                sorted[Len(sorted)])

RECURSIVE SortByCenter(_)
SortByCenter(bs) ==
    IF Len(bs) = 0 THEN <<>>
    ELSE InsertByCenter(SortByCenter(SubSeq(bs, 1, Len(bs) - 1)), bs[Len(bs)])

(* The bins of a sample whose standard deviation is not negligible.        *)
BinsOf(xs, b, q, mean, minStdDev, maxStdDev) ==
    SortByCenter(WithPercentage(
        CountSample(xs, 1, b, q, minStdDev,
                    EmptyBins(mean, minStdDev, maxStdDev, b)),
        Len(xs)))

(* The bins of the sample xs, which is not empty.                          *)
Binned(xs, b) ==
    IF IsNegligible(SquaredDeviations(xs))
    THEN <<SingleBin(Frac(Sum(xs), Len(xs)), Len(xs))>>
    ELSE BinsOf(xs, b, SquaredDeviations(xs), Frac(Sum(xs), Len(xs)),
                MinStdDev(xs, b), MaxStdDev(xs, b))

(* netPnL of a trade in the loop of generatePnLDistributionData.           *)
PnlReturn(currentEquity, trade, detected) ==
    LedgerEntry(currentEquity, CalculatePositionSize(currentEquity),
                ParseFloatOrZero(TradeField(trade, detected)),
                ParseFloatOrZero(TradeField(trade, PercentColumn))).netPnL

(* An equity that no trade moves.                                          *)
EquityAfterReturn_Unmoved(currentEquity, netPnL) == currentEquity

(* currentEquity after a trade: it moves under percentage sizing only.     *)
EquityAfterReturn(currentEquity, netPnL) ==
    IF positionSizeType = "percentage"
    THEN currentEquity + netPnL ELSE currentEquity

(* returns: the loop from trade i on.                                      *)
RECURSIVE PnlReturns(_, _, _, _)
RECURSIVE PnlReturnsFrom(_, _, _, _, _)
PnlReturnsFrom(ts, i, currentEquity, detected, netPnL) ==
    <<netPnL>> \o PnlReturns(ts, i + 1,
                     EquityAfterReturn(currentEquity, netPnL), detected)

PnlReturns(ts, i, currentEquity, detected) ==
    IF i > Len(ts) THEN <<>>
    ELSE PnlReturnsFrom(ts, i, currentEquity, detected,
                        PnlReturn(currentEquity, ts[i], detected))

(* parseFloat(String(cell).replace(/,/g, '')) || 0: the texts 'undefined'  *)
(* and '' are no numbers.                                                  *)
ParseFloatOfString(cell) == IF cell.t = "num" THEN cell.n ELSE 0

(* parseFloat(equity.toFixed(2)): the nearest cent, the farther from 0 of  *)
(* two that are equally near.                                              *)
ToFixed2(equity) ==
    IF equity >= 0 THEN ((equity + 5) \div 10) * 10
    ELSE 0 - (((0 - equity) + 5) \div 10) * 10

(* The x of a point: the day of parsedDate and the ms added to it.         *)
CurveTime(day, ms) == [day |-> day, ms |-> ms]

(* equity after the trade in the loop of generateEquityCurveData.          *)
CurveEquity(equity, trade, detected) ==
    LedgerEntry(equity, CalculatePositionSize(equity),
                ParseFloatOfString(TradeField(trade, detected)),
                ParseFloatOrZero(TradeField(trade, PercentColumn))).equityAfter

(* The points pushed from trade i on, equity being the equity after it.    *)
RECURSIVE CurvePoints(_, _, _, _)
CurvePointsFrom(ts, i, equity, detected) ==
    <<[x |-> CurveTime(ts[i].day, 0), y |-> ToFixed2(equity)]>>
        \o CurvePoints(ts, i + 1, equity, detected)

CurvePoints(ts, i, equity, detected) ==
    IF i > Len(ts) THEN <<>>
    ELSE CurvePointsFrom(ts, i, CurveEquity(equity, ts[i], detected), detected)

(* generateEquityCurveData()                                               *)
GenerateEquityCurveData(ts, capital, detected) ==
    IF Len(ts) = 0 THEN <<>>
    ELSE <<[x |-> CurveTime(ts[1].day, -1), y |-> capital]>>
             \o CurvePoints(ts, 1, capital, detected)

(* generatePnLDistributionData, once returns is filled.                    *)
GeneratePnLDistributionData(rs, b) ==
    IF Len(rs) = 0 THEN <<>> ELSE Binned(rs, b)

(* drawdownEvents.map(ev => -Math.abs(ev.depthUSD))                        *)
Depths(evs) == [j \in 1..Len(evs) |-> 0 - Abs(evs[j].depthUSD)]

GenerateDrawdownDistributionData(evs, b) ==
    IF Len(evs) = 0 THEN <<>> ELSE Binned(Depths(evs), b)

(* No distribution asked for yet.                                          *)
NoDistribution ==
    /\ returns = <<>>
    /\ drawdownEvents = <<>>
    /\ binSizeInStdDev = DefaultBinSize
    /\ bins = <<>>
    /\ equityCurve = <<>>

-----------------------------------------------------------------------------
(* The generator and generateAllOutputs                                    *)

DefaultInitialCapital == 10000 * USD
FixedPositionSize == 100 * USD
PercentagePositionSize == 10
CommissionRates == {0, 5}

(* The windows of this.trades a period can hold.                           *)
Slices(ts) == {SubSeq(ts, a, b) : a \in 1..Len(ts), b \in 1..Len(ts)} \ {<<>>}

(* A new generator, configured, with the trade files read.                 *)
Init ==
    /\ trades \in TradeLists
    /\ dailyRecords = <<>>
    /\ initialCapital = DefaultInitialCapital
    /\ commissionRate \in CommissionRates
    /\ \/ positionSizeType = "fixed" /\ positionSize = FixedPositionSize
       \/ positionSizeType = "percentage" /\ positionSize = PercentagePositionSize
    /\ detectedPnlColumn = NULL
    /\ pc = "loaded"
    /\ build = BuildDailySeries(<<>>, initialCapital, NULL)
    /\ statsArg = <<>>
    /\ stats = NullStats(0)
    /\ scan = NoScan
    /\ NoPeriods
    /\ NoDistribution

(* dailyBuildAll = this.buildDailySeries(this.trades, this.initialCapital); *)
(* this.dailyRecords = dailyBuildAll.dailyRecords                           *)
BuildAll ==
    /\ pc = "loaded"
    /\ build' = BuildDailySeries(trades, initialCapital, detectedPnlColumn)
    /\ detectedPnlColumn' = build'.detected
    /\ dailyRecords' = IF build'.threw THEN dailyRecords ELSE build'.dailyRecords
    /\ pc' = IF build'.threw THEN "failed" ELSE "built"
    /\ UNCHANGED <<trades, initialCapital, commissionRate, positionSizeType,
                   positionSize, statsArg, stats, scan>>
    /\ UNCHANGED <<periodVars, binnerVars>>

(* The effect of a call of calculatePeriodStats with the value r on the    *)
(* generator, and on the position, which becomes next unless it threw.     *)
Called(r, next) ==
    /\ stats' = r.value
    /\ detectedPnlColumn' = r.detected
    /\ pc' = IF r.threw THEN "failed" ELSE next

(* generateRectangularHeatmapData: calculatePeriodStats(period.trades,     *)
(* this.initialCapital) for a period.                                      *)
PeriodStats ==
    /\ pc = "built"
    /\ \E periodTrades \in Slices(trades) :
         /\ statsArg' = periodTrades
         /\ Called(CalculatePeriodStats(periodTrades, initialCapital,
                                        detectedPnlColumn), "built")
    /\ UNCHANGED <<trades, dailyRecords, initialCapital, commissionRate,
                   positionSizeType, positionSize, build, scan>>
    /\ UNCHANGED <<periodVars, binnerVars>>

(* overallStats = this.calculatePeriodStats(this.trades, this.initialCapital) *)
OverallStats ==
    /\ pc \in {"built", "heatmap"}
    /\ statsArg' = trades
    /\ Called(CalculatePeriodStats(trades, initialCapital, detectedPnlColumn),
              "stats")
    /\ trades' = SortByDate(trades)
    /\ UNCHANGED <<dailyRecords, initialCapital, commissionRate, positionSizeType,
                   positionSize, build, scan>>
    /\ UNCHANGED <<periodVars, binnerVars>>

(* generateDrawdownEventsFromDaily(this.dailyRecords) up to its loop.      *)
DrawdownBegin ==
    /\ pc = "stats"
    /\ IF Len(dailyRecords) = 0
       THEN scan' = NoScan /\ pc' = "done"
       ELSE scan' = ScanStart(dailyRecords) /\ pc' = "scan"
    /\ UNCHANGED <<trades, dailyRecords, initialCapital, commissionRate,
                   positionSizeType, positionSize, detectedPnlColumn, build,
                   statsArg, stats>>
    /\ UNCHANGED <<periodVars, binnerVars>>

(* The loop body, for the day scan.i.                                      *)
DrawdownDay ==
    /\ pc = "scan"
    /\ scan.i <= Len(dailyRecords)
    /\ scan' = ScanDay(scan, dailyRecords[scan.i])
    /\ UNCHANGED <<trades, dailyRecords, initialCapital, commissionRate,
                   positionSizeType, positionSize, detectedPnlColumn, pc, build,
                   statsArg, stats>>
    /\ UNCHANGED <<periodVars, binnerVars>>

(* The loop has ended: the events are completed and returned.              *)
DrawdownEnd ==
    /\ pc = "scan"
    /\ scan.i > Len(dailyRecords)
    /\ scan' = ScanEnd(scan, dailyRecords)
    /\ pc' = "done"
    /\ UNCHANGED <<trades, dailyRecords, initialCapital, commissionRate,
                   positionSizeType, positionSize, detectedPnlColumn, build,
                   statsArg, stats>>
    /\ UNCHANGED <<periodVars, binnerVars>>

Next ==
    \/ BuildAll
    \/ PeriodStats
    \/ OverallStats
    \/ DrawdownBegin
    \/ DrawdownDay
    \/ DrawdownEnd

Spec == Init /\ [][Next]_vars

-----------------------------------------------------------------------------
(* The detector on its own, over the daily series buildDailySeries can     *)
(* return under fixed sizing: one record per day, each starting at the     *)
(* equity the day before ended at.                                         *)

EquityLevels == {10095 * USD, 10100 * USD, 10105 * USD}

SeriesOf(levels, capital) ==
    [j \in 1..Len(levels) |->
        DailyRecord([date |-> j,
                     startEquity |-> IF j = 1 THEN capital ELSE levels[j - 1],
                     endEquity |-> levels[j],
                     dailyPnL |-> levels[j] - (IF j = 1 THEN capital ELSE levels[j - 1]),
                     tradeCount |-> 1])]

DailySeries ==
    UNION {{SeriesOf(levels, DefaultInitialCapital) :
                levels \in [1..n -> EquityLevels]} : n \in 1..MaxDays}

InitDetector ==
    /\ trades = <<>>
    /\ dailyRecords \in DailySeries
    /\ initialCapital = DefaultInitialCapital
    /\ commissionRate = 0
    /\ positionSizeType = "fixed"
    /\ positionSize = FixedPositionSize
    /\ detectedPnlColumn = NULL
    /\ pc = "stats"
    /\ build = BuildDailySeries(<<>>, initialCapital, NULL)
    /\ statsArg = <<>>
    /\ stats = NullStats(0)
    /\ scan = NoScan
    /\ NoPeriods
    /\ NoDistribution

NextDetector ==
    \/ DrawdownBegin
    \/ DrawdownDay
    \/ DrawdownEnd

SpecDetector == InitDetector /\ [][NextDetector]_vars

-----------------------------------------------------------------------------
(* calculatePeriods on its own, over trade lists with a time of day        *)

(* A generator as the constructor leaves it, trades and position aside.    *)
NewGenerator ==
    /\ dailyRecords = <<>>
    /\ initialCapital = DefaultInitialCapital
    /\ commissionRate = 0
    /\ positionSizeType = "fixed"
    /\ positionSize = FixedPositionSize
    /\ build = BuildDailySeries(<<>>, DefaultInitialCapital, NULL)
    /\ statsArg = <<>>
    /\ stats = NullStats(0)
    /\ scan = NoScan

(* The parsedDate of the trades, in half days.                             *)
Stamps == {0, 1, 2, 3, 5, 14, 15, 60, 61}

StampedTrade(t) == [parsedDate |-> t] @@ Trade(RowWin, t \div DayMs + 1)

StampedLists ==
    UNION {{ts \in [1..n -> {StampedTrade(t) : t \in Stamps}] :
                \A i \in 1..(n - 1) : ts[i].parsedDate <= ts[i + 1].parsedDate} :
           n \in 0..MaxTrades}

InitPeriods ==
    /\ trades \in StampedLists
    /\ detectedPnlColumn = NULL
    /\ pc = "loaded"
    /\ NewGenerator
    /\ NoPeriods
    /\ NoDistribution

(* calculatePeriods(periodType, periodLength) up to its loop.              *)
CalculatePeriodsBegin ==
    /\ walk.pc = "idle"
    /\ \E periodType \in PeriodTypes \cup {"year"},
          periodLength \in 1..MaxPeriodLength :
         walk' = WalkStart(trades, periodType, periodLength)
    /\ UNCHANGED <<generatorVars, periods, heatmapData, binnerVars>>

(* The loop body, for the window that starts at walk.currentStart.         *)
CalculatePeriodsWindow ==
    /\ walk.pc = "loop"
    /\ InWalk(walk.currentStart, walk.endDate)
    /\ walk' = WalkWindow(walk, trades)
    /\ UNCHANGED <<generatorVars, periods, heatmapData, binnerVars>>

(* The loop has ended: this.periods = periods; return periods.             *)
CalculatePeriodsEnd ==
    /\ walk.pc = "loop"
    /\ ~InWalk(walk.currentStart, walk.endDate)
    /\ periods' = walk.periods
    /\ walk' = [walk EXCEPT !.pc = "returned"]
    /\ UNCHANGED <<generatorVars, heatmapData, binnerVars>>

NextPeriods ==
    \/ CalculatePeriodsBegin
    \/ CalculatePeriodsWindow
    \/ CalculatePeriodsEnd

(* A call that has begun runs on: the loop is not interrupted.             *)
SpecPeriods == InitPeriods /\ [][NextPeriods]_vars /\ WF_vars(NextPeriods)

-----------------------------------------------------------------------------
(* The distribution functions on their own, over small samples             *)

SampleValues == {-2, -1, 0, 1, 3}
DepthValues == {1, 2, 4}
BinSizes == {<<1, 10>>, <<1, 2>>, <<1, 1>>, <<3, 2>>}

(* A row with the amount x and no percentage.                              *)
RowOf(x) ==
    [keys |-> <<"P&L USD", "P&L %">>,
     cells |-> ("P&L USD" :> Num(x) @@ "P&L %" :> Empty)]

SampleTrades ==
    UNION {{[j \in 1..n |-> Trade(RowOf(xs[j]), j)] : xs \in [1..n -> SampleValues]} :
           n \in 0..MaxSample}

SampleEvents ==
    UNION {[1..n -> {[depthUSD |-> d] : d \in DepthValues}] : n \in 1..MaxSample}

(* The generator once buildDailySeries has found the P&L column, with the  *)
(* trades of a sample, or with the drawdown events of one.                 *)
InitDistribution ==
    /\ \/ trades \in SampleTrades /\ drawdownEvents = <<>>
       \/ trades = <<>> /\ drawdownEvents \in SampleEvents
    /\ detectedPnlColumn = "P&L USD"
    /\ pc = "distribution"
    /\ NewGenerator
    /\ NoPeriods
    /\ returns = <<>>
    /\ binSizeInStdDev \in BinSizes
    /\ bins = <<>>
    /\ equityCurve = <<>>

(* fullPnlDistributionData = this.generatePnLDistributionData()            *)
PnLDistribution ==
    /\ pc \in {"distribution", "curve"}
    /\ returns' = PnlReturns(trades, 1, initialCapital, detectedPnlColumn)
    /\ bins' = GeneratePnLDistributionData(returns', binSizeInStdDev)
    /\ pc' = "pnlDistribution"
    /\ UNCHANGED <<trades, dailyRecords, initialCapital, commissionRate,
                   positionSizeType, positionSize, detectedPnlColumn, build,
                   statsArg, stats, scan, periodVars, drawdownEvents,
                   binSizeInStdDev, equityCurve>>

(* this.generateDrawdownDistributionData(drawdownEvents)                   *)
DrawdownDistribution ==
    /\ pc = "distribution"
    /\ bins' = GenerateDrawdownDistributionData(drawdownEvents, binSizeInStdDev)
    /\ pc' = "drawdownDistribution"
    /\ UNCHANGED <<trades, dailyRecords, initialCapital, commissionRate,
                   positionSizeType, positionSize, detectedPnlColumn, build,
                   statsArg, stats, scan, periodVars, returns, drawdownEvents,
                   binSizeInStdDev, equityCurve>>

NextDistribution ==
    \/ PnLDistribution
    \/ DrawdownDistribution

SpecDistribution == InitDistribution /\ [][NextDistribution]_vars

-----------------------------------------------------------------------------
(* The statistics on their own, over the values buildDailySeries returns   *)
(* for small amounts: one trade a day, the capital and the end equity of   *)
(* every day drawn from a few levels.                                      *)

MaxStatsDays == 3

(* Days without a profit or a loss that lengthen a series to the 20 days   *)
(* from which on varIndex is above 0.                                      *)
PadDays == 18

StatsCapitals == {-2, 0, 2}
StatsLevels == {-1, 1, 2, 3}
JumpLevels == {<<100>>, <<100, 98>>, <<98, 100>>}

Padded(levels) == levels \o [j \in 1..PadDays |-> levels[Len(levels)]]

LevelSeries == UNION {[1..n -> StatsLevels] : n \in 0..MaxStatsDays}

BuildOf(levels, capital) ==
    Returned(SeriesOf(levels, capital), Len(levels), capital,
             NoLocals(capital, NULL))

(* Equity that grows by the same tenth, or by the same three tenths, of    *)
(* itself every day, in whole USD.                                         *)
SteadyCapital == 10000 * USD
SteadyLevels ==
    {<<11000 * USD>>, <<11000 * USD, 12100 * USD>>,
     <<11000 * USD, 12100 * USD, 13310 * USD>>,
     <<13000 * USD, 16900 * USD, 21970 * USD>>}

StatsBuilds(capital) ==
    IF capital = SteadyCapital
    THEN {BuildOf(levels, capital) : levels \in SteadyLevels}
    ELSE {BuildOf(levels, capital) : levels \in LevelSeries \cup JumpLevels}
            \cup {BuildOf(Padded(levels), capital) : levels \in LevelSeries \ {<<>>}}

InitStats ==
    /\ trades = <<>>
    /\ dailyRecords = <<>>
    /\ initialCapital \in StatsCapitals \cup {SteadyCapital}
    /\ commissionRate = 0
    /\ positionSizeType = "fixed"
    /\ positionSize = FixedPositionSize
    /\ detectedPnlColumn = "P&L USD"
    /\ pc = "built"
    /\ build \in StatsBuilds(initialCapital)
    /\ statsArg = <<>>
    /\ stats = NullStats(0)
    /\ scan = NoScan
    /\ NoPeriods
    /\ NoDistribution

(* calculatePeriodStats once buildDailySeries has returned build.          *)
StatsOfDays ==
    /\ pc = "built"
    /\ stats' = DailyStats(build, initialCapital)
    /\ pc' = "stats"
    /\ UNCHANGED <<trades, dailyRecords, initialCapital, commissionRate,
                   positionSizeType, positionSize, detectedPnlColumn, build,
                   statsArg, scan, periodVars, binnerVars>>

NextStats == StatsOfDays

SpecStats == InitStats /\ [][NextStats]_vars

-----------------------------------------------------------------------------
(* Properties                                                              *)

(* buildDailySeries(this.trades, ...) has returned.                        *)
Built == pc \in {"built", "stats", "scan", "done"}

(* calculatePeriodStats(statsArg, ...) has returned stats.                 *)
StatsReturned == Built /\ Len(statsArg) > 0

(* The daily records of the call that returned stats.                      *)
StatsRecords ==
    BuildDailySeries(SortByDate(statsArg), initialCapital,
                     detectedPnlColumn).dailyRecords

(* C1: the daily records buildDailySeries returns for a sorted trade list  *)
(* chain: the first starts at initialCapital, every later one starts at    *)
(* the endEquity of the record before it.                                  *)
C1_EquityChain ==
    Built =>
        \A j \in 1..Len(build.dailyRecords) :
            build.dailyRecords[j].startEquity =
                IF j = 1 THEN initialCapital
                ELSE build.dailyRecords[j - 1].endEquity

C1_Witness ==
    /\ pc = "built"
    /\ Len(build.dailyRecords) >= 2
    /\ \E j \in 1..Len(build.dailyRecords) : build.dailyRecords[j].tradeCount >= 2
    /\ build.dailyRecords[2].startEquity # initialCapital

(* C2: whenever a drawdown is open and the day's endEquity meets or        *)
(* exceeds its peakEquity, the loop closes it on that day: one event is    *)
(* pushed with recovered = TRUE, endDate the day and recoveryEquity the    *)
(* day's endEquity, and no drawdown is open afterwards.                    *)
C2_RecoveryClosesEvent ==
    [][(/\ pc = "scan"
        /\ scan.i <= Len(dailyRecords)
        /\ IsOpen(scan)
        /\ dailyRecords[scan.i].endEquity >= scan.currentDrawdown[1].peakEquity)
       => (/\ Len(scan'.events) = Len(scan.events) + 1
           /\ ~IsOpen(scan')
           /\ scan'.events[Len(scan'.events)].recovered = TRUE
           /\ scan'.events[Len(scan'.events)].endDate = dailyRecords[scan.i].date
           /\ scan'.events[Len(scan'.events)].recoveryEquity =
                  dailyRecords[scan.i].endEquity)]_vars

(* C3: the events returned are ordered by startDate and do not overlap:    *)
(* each ends no later than the next one starts.                            *)
C3_EventsDisjoint ==
    pc = "done" =>
        \A k \in 1..(Len(scan.events) - 1) :
            /\ scan.events[k].startDate <= scan.events[k + 1].startDate
            /\ scan.events[k].endDate <= scan.events[k + 1].startDate

(* The running peak of the end equities up to day i, and the drop below    *)
(* it on day i.                                                            *)
RunningPeak(records, i) ==
    CHOOSE p \in {records[j].endEquity : j \in 1..i} :
        \A j \in 1..i : records[j].endEquity <= p

Drop(records, i) == RunningPeak(records, i) - records[i].endEquity

(* C4: mdd is the largest drop of the end equity below its running peak,   *)
(* divided by the running peak of the day of that drop, times 100.         *)
C4_MddUsesPeakAtDrop ==
    StatsReturned =>
        \E i \in 1..Len(StatsRecords) :
            /\ \A j \in 1..Len(StatsRecords) :
                   Drop(StatsRecords, j) <= Drop(StatsRecords, i)
            /\ stats.mdd = Fin(Frac(Drop(StatsRecords, i) * 100,
                                    RunningPeak(StatsRecords, i)))

(* C5: no metric calculatePeriodStats returns is NaN or infinite.          *)
C5_MetricsFinite ==
    StatsReturned =>
        \A m \in {"totalReturn", "annualReturn", "calmarRatio", "mdd", "winRate"} :
            stats[m].k \notin {"inf", "nan"}

(* C6: calculatePeriodStats returns for a trade list what a new generator  *)
(* with the same configuration returns for it.                             *)
C6_NoStateAcrossCalls ==
    StatsReturned =>
        stats = CalculatePeriodStats(statsArg, initialCapital, NULL).value

(* C7: the gross P&L of every trade is stake * P&L% / 100 when the P&L %   *)
(* field parses to a number other than 0, whatever the amount field holds; *)
(* otherwise it is the amount parsed from the P&L column under fixed       *)
(* sizing, and 0 under percentage sizing.                                  *)
C7_GrossPnL ==
    Built =>
        \A i \in 1..Len(build.ledger) :
            build.ledger[i].actualPnL =
                IF ParseFloatOrZero(TradeField(trades[i], PercentColumn)) # 0
                THEN (build.ledger[i].positionSize
                        * ParseFloatOrZero(TradeField(trades[i], PercentColumn)))
                     \div 100
                ELSE IF positionSizeType = "fixed"
                THEN ParseFloatOrZero(TradeField(trades[i], detectedPnlColumn))
                ELSE 0

C7_Witness ==
    /\ pc = "built"
    /\ \E i \in 1..Len(build.ledger) :
         /\ ParseFloatOrZero(TradeField(trades[i], PercentColumn)) # 0
         /\ ParseFloatOrZero(TradeField(trades[i], detectedPnlColumn)) # 0
         /\ build.ledger[i].actualPnL #
                ParseFloatOrZero(TradeField(trades[i], detectedPnlColumn))
    /\ \E i \in 1..Len(build.ledger) :
         /\ ParseFloatOrZero(TradeField(trades[i], PercentColumn)) = 0
         /\ build.ledger[i].actualPnL # 0

(* The P&L % of the trades, in order.                                      *)
PercentsOf(ts) ==
    [i \in 1..Len(ts) |-> ParseFloatOrZero(TradeField(ts[i], PercentColumn))]

(* C8: under percentage sizing the stake of a trade is positionSize / 100  *)
(* of the equity after the trade before it (of initialCapital for the      *)
(* first), under fixed sizing it is positionSize; with 10000 USD, 10 %,    *)
(* no commission and P&L % of 10, -5, 10 the equities after the trades     *)
(* are 10100, 10049.5 and 10149.995.                                       *)
C8_Stake ==
    Built =>
        /\ \A i \in 1..Len(build.ledger) :
             build.ledger[i].positionSize =
                 IF positionSizeType = "fixed" THEN positionSize
                 ELSE ((IF i = 1 THEN initialCapital
                        ELSE build.ledger[i - 1].equityAfter) * positionSize) \div 100
        /\ (/\ positionSizeType = "percentage"
            /\ positionSize = 10
            /\ commissionRate = 0
            /\ initialCapital = 10000 * USD
            /\ PercentsOf(trades) = <<10, -5, 10>>)
           => [i \in 1..3 |-> build.ledger[i].equityAfter]
                  = <<10100 * USD, 10049 * USD + 500, 10149 * USD + 995>>

C8_Witness ==
    /\ pc = "built"
    /\ positionSizeType = "percentage"
    /\ commissionRate = 0
    /\ PercentsOf(trades) = <<10, -5, 10>>
    /\ build.ledger[3].positionSize = 1004 * USD + 950

(* C9, as the claim states it: the commission of a trade is its stake      *)
(* times commissionRate, and netPnL = actualPnL - commission.              *)
C9_CommissionOnce ==
    Built =>
        \A i \in 1..Len(build.ledger) :
            /\ build.ledger[i].commission =
                   (build.ledger[i].positionSize * commissionRate) \div 10000
            /\ build.ledger[i].netPnL =
                   build.ledger[i].actualPnL - build.ledger[i].commission

(* C9, amended: the commission of a trade is its stake times               *)
(* commissionRate times 2, the rate being charged on entry and on exit,    *)
(* and netPnL = actualPnL - commission.                                    *)
C9_CommissionBothSides ==
    Built =>
        \A i \in 1..Len(build.ledger) :
            /\ build.ledger[i].commission =
                   (build.ledger[i].positionSize * commissionRate * 2) \div 10000
            /\ build.ledger[i].netPnL =
                   build.ledger[i].actualPnL - build.ledger[i].commission
            /\ build.ledger[i].equityAfter =
                   build.ledger[i].equityAtTradeStart + build.ledger[i].netPnL

C9_Witness ==
    /\ pc = "built"
    /\ commissionRate > 0
    /\ Len(build.ledger) >= 2
    /\ \A i \in 1..Len(build.ledger) : build.ledger[i].commission > 0

(* The scenario of C10: fixed stake of 100 USD, no commission, P&L % of    *)
(* 10, -5, 10 on three consecutive days.                                   *)
C10_Scenario ==
    /\ positionSizeType = "fixed"
    /\ positionSize = 100 * USD
    /\ commissionRate = 0
    /\ initialCapital = 10000 * USD
    /\ PercentsOf(trades) = <<10, -5, 10>>
    /\ [i \in 1..3 |-> trades[i].day] = <<1, 2, 3>>

(* C10: in the scenario the daily end equities are 10100, 10095, 10105,    *)
(* and the detector returns one event: peak 10100, trough 10095 on day 2,  *)
(* depth 5, ended on day 3, recovered.                                     *)
C10_ScenarioEvent ==
    (C10_Scenario /\ pc = "done") =>
        /\ [j \in 1..Len(dailyRecords) |-> dailyRecords[j].endEquity]
               = <<10100 * USD, 10095 * USD, 10105 * USD>>
        /\ Len(scan.events) = 1
        /\ scan.events[1].peakEquity = 10100 * USD
        /\ scan.events[1].troughEquity = 10095 * USD
        /\ scan.events[1].troughDate = 2
        /\ scan.events[1].depthUSD = 5 * USD
        /\ scan.events[1].endDate = 3
        /\ scan.events[1].recovered = TRUE

-----------------------------------------------------------------------------
(* Properties of calculatePeriods                                          *)

(* calculatePeriods has returned this.periods.                             *)
WalkReturned == walk.pc = "returned"

(* The start of the window that contains the timestamp t.                  *)
WindowStartOf(t) ==
    trades[1].parsedDate
        + ((t - trades[1].parsedDate) \div walk.intervalMs) * walk.intervalMs

TradesWithin(start, end) ==
    SelectSeq(trades, LAMBDA trade : /\ start <= trade.parsedDate
                                     /\ trade.parsedDate < end)

(* C11: every trade lies in exactly one emitted period, the window         *)
(* [first + k * interval, first + (k + 1) * interval) that contains its    *)
(* timestamp; no emitted period is empty; the periods are numbered         *)
(* 1, 2, ..., m in the order of their starts.                              *)
C11_PeriodsPartition ==
    WalkReturned =>
        /\ \A j \in 1..Len(periods) :
             /\ periods[j].index = j
             /\ Len(periods[j].trades) > 0
             /\ periods[j].startDate = WindowStartOf(periods[j].startDate)
             /\ periods[j].endDate = periods[j].startDate + walk.intervalMs
             /\ periods[j].trades = TradesWithin(periods[j].startDate,
                                                 periods[j].endDate)
        /\ \A j \in 1..(Len(periods) - 1) :
             periods[j].startDate < periods[j + 1].startDate
        /\ \A i \in 1..Len(trades) :
             \E j \in 1..Len(periods) :
                 periods[j].startDate = WindowStartOf(trades[i].parsedDate)

(* Two periods, the first with two trades, and an empty window between.    *)
C11_Witness ==
    /\ WalkReturned
    /\ Len(periods) = 2
    /\ Len(periods[1].trades) = 2
    /\ periods[1].endDate < periods[2].startDate

(* C12 as stated: every emitted period ends where the next one starts.     *)
C12_PeriodsContiguous ==
    WalkReturned =>
        \A j \in 1..(Len(periods) - 1) :
            periods[j].endDate = periods[j + 1].startDate

(* C12: the emitted periods do not overlap, and between a period and the   *)
(* next lie only whole windows without a trade, which were omitted.        *)
C12_PeriodsDisjoint ==
    WalkReturned =>
        \A j \in 1..(Len(periods) - 1) :
            /\ periods[j].endDate <= periods[j + 1].startDate
            /\ (periods[j + 1].startDate - periods[j].endDate) % walk.intervalMs = 0
            /\ Len(TradesWithin(periods[j].endDate, periods[j + 1].startDate)) = 0

(* Three periods: the second follows the first at once, the third after    *)
(* omitted windows.                                                        *)
C12_Witness ==
    /\ WalkReturned
    /\ Len(periods) = 3
    /\ periods[1].endDate = periods[2].startDate
    /\ periods[2].endDate < periods[3].startDate

(* C13: the walk over the windows ends, and it ends at the first window    *)
(* start above the timestamp of the last trade: the window that starts     *)
(* at that timestamp is still processed.                                   *)
C13_WalkStops ==
    /\ [](WalkReturned =>
            /\ walk.currentStart > trades[Len(trades)].parsedDate
            /\ walk.currentStart - walk.intervalMs <= trades[Len(trades)].parsedDate)
    /\ ((walk.pc = "loop") ~> WalkReturned)

(* The last period is the window that starts at the last trade.            *)
C13_Witness ==
    /\ WalkReturned
    /\ Len(trades) > 1
    /\ trades[1].parsedDate < trades[Len(trades)].parsedDate
    /\ periods[Len(periods)].startDate = trades[Len(trades)].parsedDate

-----------------------------------------------------------------------------
(* Properties of the distribution functions                                *)

(* A distribution function has returned bins for the sample Sample.        *)
BinsReturned == pc \in {"pnlDistribution", "drawdownDistribution"}

Sample == IF pc = "pnlDistribution" THEN returns ELSE Depths(drawdownEvents)

CountSum(bs) == Sum([j \in 1..Len(bs) |-> bs[j].count])

(* binStart <= x < binEnd, for a value x of the sample xs.                 *)
InBin(xs, x, bin) ==
    /\ LeqStdDevs(bin.binStart.stdDevs[1],
                  Deviation(xs, x) * bin.binStart.stdDevs[2],
                  SquaredDeviations(xs), Len(xs))
    /\ ~LeqStdDevs(bin.binEnd.stdDevs[1],
                   Deviation(xs, x) * bin.binEnd.stdDevs[2],
                   SquaredDeviations(xs), Len(xs))

(* C14: the counts of the bins of a sample that is not empty add up to     *)
(* the size of the sample, every value being counted in one bin: the bin   *)
(* it lies in.                                                             *)
C14_CountsSumToSample ==
    (BinsReturned /\ Len(Sample) > 0) =>
        /\ CountSum(bins) = Len(Sample)
        /\ SquaredDeviations(Sample) # 0 =>
             \A j \in 1..Len(bins) :
                 bins[j].count =
                     Cardinality({i \in 1..Len(Sample) :
                                     InBin(Sample, Sample[i], bins[j])})

(* Three trades, two of them in one bin, and more bins than values.        *)
C14_Witness ==
    /\ pc = "pnlDistribution"
    /\ Len(returns) = 3
    /\ Len(bins) > 3
    /\ \E j \in 1..Len(bins) : bins[j].count = 2

(* mean + q * stdDev <= x and x <= mean + q * stdDev                       *)
AmountLeq(xs, amount, x) ==
    LeqStdDevs(amount.stdDevs[1], Deviation(xs, x) * amount.stdDevs[2],
               SquaredDeviations(xs), Len(xs))

LeqAmount(xs, x, amount) ==
    LeqStdDevs(0 - amount.stdDevs[1], 0 - Deviation(xs, x) * amount.stdDevs[2],
               SquaredDeviations(xs), Len(xs))

-----------------------------------------------------------------------------
(* Properties of the ratios                                                *)

(* calculatePeriodStats has returned the statistics of build.              *)
RatiosReturned == pc = "stats" /\ "sortinoRatio" \in DOMAIN stats

NegativeDays == {j \in 1..Len(build.dailyReturnPctSeries) :
                    build.dailyReturnPctSeries[j][1] < 0}

(* The mean of the squares of the negative daily returns.                  *)
NegativeMeanSquare ==
    FOver(FSum([j \in 1..Len(build.dailyReturnPctSeries) |->
                   IF j \in NegativeDays
                   THEN FSquare(build.dailyReturnPctSeries[j]) ELSE <<0, 1>>]),
          Cardinality(NegativeDays))

MeanReturn ==
    FOver(FSum(build.dailyReturnPctSeries), Len(build.dailyReturnPctSeries))

(* C16: sortinoRatio is the mean of the daily returns over the root mean   *)
(* square of the negative ones, also for a negative mean; it is 0 when     *)
(* no daily return is negative.                                            *)
C16_Sortino ==
    (RatiosReturned /\ build.totalDays > 0) =>
        IF NegativeDays = {}
        THEN stats.sortinoRatio = Zero
        ELSE /\ stats.sortinoRatio.k = "fin"
             /\ stats.sortinoRatio.v =
                    <<MeanReturn[1], MeanReturn[2],
                      NegativeMeanSquare[1], NegativeMeanSquare[2]>>

(* A series with a gain and a loss whose mean is negative.                 *)
C16_Witness ==
    /\ RatiosReturned
    /\ Len(build.dailyReturnPctSeries) = 3
    /\ \E j \in 1..3 : build.dailyReturnPctSeries[j][1] > 0
    /\ stats.sortinoRatio.v[1] < 0

(* C17: calmarRatio is annualReturn / mdd when mdd is not 0, and 0 when    *)
(* mdd is 0.                                                               *)
C17_Calmar ==
    (RatiosReturned /\ build.totalDays > 0) =>
        IF stats.mdd # Zero
        THEN stats.calmarRatio = Quotient(stats.annualReturn, stats.mdd)
        ELSE stats.calmarRatio = Zero

PositiveSum == IntSum([j \in 1..Len(build.dailyReturnUSDSeries) |->
                   IF build.dailyReturnUSDSeries[j] > 0
                   THEN build.dailyReturnUSDSeries[j] ELSE 0])

NegativeSum == IntSum([j \in 1..Len(build.dailyReturnUSDSeries) |->
                   IF build.dailyReturnUSDSeries[j] < 0
                   THEN build.dailyReturnUSDSeries[j] ELSE 0])

(* C18: for every series of daily P&L, the empty one included,             *)
(* omegaRatio is the sum of the gains over the absolute sum of the         *)
(* losses; without a loss it is 0 when there is a gain and 1 otherwise.    *)
C18_Omega ==
    RatiosReturned =>
        stats.omegaRatio =
            IF NegativeSum # 0 THEN Fin(Frac(PositiveSum, 0 - NegativeSum))
            ELSE IF PositiveSum > 0 THEN Zero
            ELSE Fin(<<1, 1>>)

(* The value at index k (from 0) of the daily P&L in ascending order.      *)
KthSmallest(xs, k) ==
    CHOOSE v \in {xs[j] : j \in 1..Len(xs)} :
        /\ Cardinality({j \in 1..Len(xs) : xs[j] < v}) <= k
        /\ k < Cardinality({j \in 1..Len(xs) : xs[j] <= v})

(* C19: var95 is the daily P&L at index floor(n * 0.05) of the ascending   *)
(* order (0 for no day), cvar95 the mean of the values up to that index,   *)
(* and cvar95 <= var95.                                                    *)
C19_VarCvar ==
    RatiosReturned =>
        IF Len(build.dailyReturnUSDSeries) = 0
        THEN stats.var95 = Zero /\ stats.cvar95 = Zero
        ELSE /\ stats.var95 =
                    Fin(<<KthSmallest(build.dailyReturnUSDSeries,
                              (Len(build.dailyReturnUSDSeries) * 5) \div 100), 1>>)
             /\ stats.cvar95 =
                    Fin(Frac(IntSum([i \in 1..((Len(build.dailyReturnUSDSeries) * 5) \div 100 + 1) |->
                                 KthSmallest(build.dailyReturnUSDSeries, i - 1)]),
                             (Len(build.dailyReturnUSDSeries) * 5) \div 100 + 1))
             /\ stats.cvar95.v[1] * stats.var95.v[2]
                    <= stats.var95.v[1] * stats.cvar95.v[2]

(* Twenty days or more, and a mean of the tail below var95.                *)
C19_Witness ==
    /\ RatiosReturned
    /\ Len(build.dailyReturnUSDSeries) >= 20
    /\ stats.var95 # stats.cvar95

(* C20: annualReturn is 0 when the elapsed time or the initial capital     *)
(* is not positive, otherwise -100 when the final equity is not positive,  *)
(* otherwise ((finalEquity / initialCapital)^(1 / elapsedYears) - 1) * 100.*)
C20_AnnualReturn ==
    (RatiosReturned /\ build.totalDays > 0) =>
        stats.annualReturn =
            IF DurationDays(build.dailyRecords) <= 0 \/ initialCapital <= 0
            THEN Zero
            ELSE IF build.finalEquity <= 0 THEN Fin(<<-100, 1>>)
            ELSE [k |-> PowClass(build.finalEquity, initialCapital,
                                 DurationDays(build.dailyRecords)),
                  v |-> <<build.finalEquity, initialCapital,
                          DurationDays(build.dailyRecords)>>]

(* No capital and no equity left: 0, not -100.                             *)
C20_Witness ==
    /\ RatiosReturned
    /\ build.totalDays > 0
    /\ initialCapital <= 0
    /\ build.finalEquity <= 0
    /\ stats.annualReturn = Zero

-----------------------------------------------------------------------------
(* calculatePeriodStats called twice with this.trades, on a generator that *)
(* has detected no P&L column yet, or one in an earlier call.              *)

InitTwice ==
    /\ trades \in TradeLists
    /\ dailyRecords = <<>>
    /\ initialCapital = DefaultInitialCapital
    /\ commissionRate \in CommissionRates
    /\ \/ positionSizeType = "fixed" /\ positionSize = FixedPositionSize
       \/ positionSizeType = "percentage" /\ positionSize = PercentagePositionSize
    /\ detectedPnlColumn \in {NULL, "P&L USDT"}
    /\ pc = "loaded"
    /\ build = BuildDailySeries(<<>>, initialCapital, NULL)
    /\ statsArg = <<>>
    /\ stats = NullStats(0)
    /\ scan = NoScan
    /\ NoPeriods
    /\ NoDistribution

(* calculatePeriodStats(this.trades, this.initialCapital): statsArg is the *)
(* list as passed, trades the list as the call leaves it.                  *)
StatsCall(from, to) ==
    /\ pc = from
    /\ statsArg' = trades
    /\ Called(CalculatePeriodStats(trades, initialCapital, detectedPnlColumn), to)
    /\ trades' = CalculatePeriodStats(trades, initialCapital,
                                      detectedPnlColumn).sorted
    /\ UNCHANGED <<dailyRecords, initialCapital, commissionRate, positionSizeType,
                   positionSize, build, scan, periodVars, binnerVars>>

StatsFirst == StatsCall("loaded", "first")

StatsSecond == StatsCall("first", "second")

NextTwice ==
    \/ StatsFirst
    \/ StatsSecond

SpecTwice == InitTwice /\ [][NextTwice]_vars

-----------------------------------------------------------------------------
(* generateAllOutputs up to the daily series, over trade lists that may    *)
(* be empty or lack a P&L column, on a generator that may hold the         *)
(* periods of an earlier run.                                              *)

(* A row none of whose keys contains a P&L keyword.                        *)
RowNoPnl ==
    [keys |-> <<"Price">>, cells |-> ("Price" :> Num(25 * USD))]

StampedRow(row, t) == [parsedDate |-> t] @@ Trade(row, t \div DayMs + 1)

RefusalStamps == {0, 1, 3}

RefusalLists ==
    UNION {{ts \in [1..n -> {StampedRow(r, t) : r \in {RowWin, RowNoPnl},
                                                t \in RefusalStamps}] :
                \A i \in 1..(n - 1) : ts[i].parsedDate <= ts[i + 1].parsedDate} :
           n \in 0..MaxTrades}

(* this.periods as a call of calculatePeriods for other trades left it.    *)
EarlierPeriods == <<Period(1, 60, 60 + DayMs, <<StampedRow(RowNoPnl, 60)>>)>>

InitRefusal ==
    /\ trades \in RefusalLists
    /\ detectedPnlColumn = NULL
    /\ pc = "loaded"
    /\ NewGenerator
    /\ periods \in {<<>>, EarlierPeriods}
    /\ walk = NoWalk
    /\ heatmapData = <<>>
    /\ NoDistribution

(* this.calculatePeriods(periodType, periodLength)                         *)
PeriodsCall ==
    /\ pc = "loaded"
    /\ \E periodType \in PeriodTypes \cup {"year"},
          periodLength \in 1..MaxPeriodLength :
         walk' = CalculatePeriods(trades, periodType, periodLength)
    /\ periods' = IF walk'.pc = "returned" THEN walk'.periods ELSE periods
    /\ pc' = IF walk'.pc = "returned" THEN "periods" ELSE "failed"
    /\ UNCHANGED <<trades, dailyRecords, initialCapital, commissionRate,
                   positionSizeType, positionSize, detectedPnlColumn, build,
                   statsArg, stats, scan, heatmapData, binnerVars>>

(* dailyBuildAll = this.buildDailySeries(this.trades, this.initialCapital), *)
(* after calculatePeriods has returned.                                     *)
BuildAfterPeriods ==
    /\ pc = "periods"
    /\ build' = BuildDailySeries(trades, initialCapital, detectedPnlColumn)
    /\ detectedPnlColumn' = build'.detected
    /\ dailyRecords' = IF build'.threw THEN dailyRecords ELSE build'.dailyRecords
    /\ pc' = IF build'.threw THEN "failed" ELSE "built"
    /\ UNCHANGED <<trades, initialCapital, commissionRate, positionSizeType,
                   positionSize, statsArg, stats, scan>>
    /\ UNCHANGED <<periodVars, binnerVars>>

NextRefusal ==
    \/ PeriodsCall
    \/ BuildAfterPeriods

SpecRefusal == InitRefusal /\ [][NextRefusal]_vars

-----------------------------------------------------------------------------
(* The three folds of generateAllOutputs over the same trades: the daily   *)
(* series, the equity curve and the returns of the P&L distribution, for   *)
(* a capital of 1 USD and amounts of a few 1/1000 USD.                     *)

FoldCapital == USD
FoldPositionSize == USD \div 10
FoldCommissionRates == {0, 500}

(* A row with an amount in another P&L column and no percentage.           *)
RowOfUsdt(x) ==
    [keys |-> <<"P&L USDT", "P&L %">>,
     cells |-> ("P&L USDT" :> Num(x) @@ "P&L %" :> Text)]

FoldRows == {RowWin, RowLoss, RowOf(3), RowOfUsdt(-2)}

FoldLists ==
    UNION {{ts \in [1..n -> {Trade(r, d) : r \in FoldRows, d \in 1..MaxTrades}] :
                ts[1].day = 1 /\ IsSorted(ts)} : n \in 1..MaxTrades}

InitFolds ==
    /\ trades \in FoldLists
    /\ dailyRecords = <<>>
    /\ initialCapital = FoldCapital
    /\ commissionRate \in FoldCommissionRates
    /\ \/ positionSizeType = "fixed" /\ positionSize = FoldPositionSize
       \/ positionSizeType = "percentage" /\ positionSize = PercentagePositionSize
    /\ detectedPnlColumn = NULL
    /\ pc = "loaded"
    /\ build = BuildDailySeries(<<>>, initialCapital, NULL)
    /\ statsArg = <<>>
    /\ stats = NullStats(0)
    /\ scan = NoScan
    /\ NoPeriods
    /\ NoDistribution

(* equityCurveData = this.generateEquityCurveData()                        *)
EquityCurve ==
    /\ pc = "built"
    /\ equityCurve' = GenerateEquityCurveData(trades, initialCapital,
                                              detectedPnlColumn)
    /\ pc' = "curve"
    /\ UNCHANGED <<trades, dailyRecords, initialCapital, commissionRate,
                   positionSizeType, positionSize, detectedPnlColumn, build,
                   statsArg, stats, scan, periodVars, returns, drawdownEvents,
                   binSizeInStdDev, bins>>

NextFolds ==
    \/ BuildAll
    \/ EquityCurve
    \/ PnLDistribution

SpecFolds == InitFolds /\ [][NextFolds]_vars

-----------------------------------------------------------------------------
(* The statistics of the periods and of the whole history, in the order    *)
(* of generateAllOutputs.                                                  *)

(* The sum of totalReturn, and of numTrades, over the rows of the heatmap. *)
RECURSIVE SumOfReturns(_)
SumOfReturns(rows) ==
    IF Len(rows) = 0 THEN 0
    ELSE rows[1].totalReturn.v[1] + SumOfReturns(Tail(rows))

RECURSIVE SumOfTrades(_)
SumOfTrades(rows) ==
    IF Len(rows) = 0 THEN 0 ELSE rows[1].numTrades + SumOfTrades(Tail(rows))

(* A capital that carries the returns of the periods before.               *)
PeriodCapital_Carried(capital, rows) == capital + SumOfReturns(rows)

(* The capital of a period, after the rows of the periods before it:       *)
(* this.initialCapital.                                                    *)
PeriodCapital(capital, rows) == capital

(* The row of a period: its index, the days of its dates, its statistics.  *)
HeatmapRow(period, periodStats) ==
    [period |-> period.index,
     startDate |-> period.startDate \div DayMs + 1,
     endDate |-> period.endDate \div DayMs + 1] @@ periodStats

(* this.periods.map(...) from period k on.                                 *)
RECURSIVE HeatmapRows(_, _, _, _, _)
HeatmapRows(ps, k, capital, detected, rows) ==
    IF k > Len(ps) THEN rows
    ELSE HeatmapRows(ps, k + 1, capital, detected,
             Append(rows, HeatmapRow(ps[k],
                 CalculatePeriodStats(ps[k].trades, PeriodCapital(capital, rows),
                                      detected).value)))

HeatmapStamps == {0, 2, 5}

HeatmapLists ==
    UNION {{ts \in [1..n -> {StampedRow(r, t) : r \in {RowWin, RowLoss, RowUsdt},
                                                t \in HeatmapStamps}] :
                \A i \in 1..(n - 1) : ts[i].parsedDate <= ts[i + 1].parsedDate} :
           n \in 1..MaxTrades}

InitHeatmap ==
    /\ trades \in HeatmapLists
    /\ dailyRecords = <<>>
    /\ initialCapital = DefaultInitialCapital
    /\ commissionRate \in CommissionRates
    /\ \/ positionSizeType = "fixed" /\ positionSize = FixedPositionSize
       \/ positionSizeType = "percentage" /\ positionSize = PercentagePositionSize
    /\ detectedPnlColumn = NULL
    /\ pc = "loaded"
    /\ build = BuildDailySeries(<<>>, initialCapital, NULL)
    /\ statsArg = <<>>
    /\ stats = NullStats(0)
    /\ scan = NoScan
    /\ NoPeriods
    /\ NoDistribution

(* The map of generateRectangularHeatmapData over this.periods.            *)
HeatmapData ==
    /\ pc = "built"
    /\ Len(periods) > 0
    /\ heatmapData' = HeatmapRows(periods, 1, initialCapital, detectedPnlColumn,
                                  <<>>)
    /\ statsArg' = periods[Len(periods)].trades
    /\ stats' = CalculatePeriodStats(statsArg', initialCapital,
                                     detectedPnlColumn).value
    /\ pc' = "heatmap"
    /\ UNCHANGED <<trades, dailyRecords, initialCapital, commissionRate,
                   positionSizeType, positionSize, detectedPnlColumn, build,
                   scan, periods, walk, binnerVars>>

NextHeatmap ==
    \/ PeriodsCall
    \/ BuildAfterPeriods
    \/ HeatmapData
    \/ OverallStats

SpecHeatmap == InitHeatmap /\ [][NextHeatmap]_vars

-----------------------------------------------------------------------------
(* Properties of the statistics and of the detector                        *)

(* The days of build all have the same dailyReturnPct: their population    *)
(* standard deviation is 0.                                                *)
SameReturnEveryDay ==
    /\ build.totalDays > 0
    /\ \A j \in 1..build.totalDays :
           build.dailyReturnPctSeries[j] = build.dailyReturnPctSeries[1]

(* C21: whenever the population standard deviation of the daily           *)
(* percentage returns is 0 (a single day, or every day with the same       *)
(* return), the sharpeRatio returned is exactly 0.                         *)
C21_SharpeZero ==
    (RatiosReturned /\ SameReturnEveryDay) => stats.sharpeRatio = Zero

(* C22: the second of two calls of calculatePeriodStats with the same      *)
(* trade list and configuration returns the statistics the first           *)
(* returned, and the first leaves the list, which is sorted, and the       *)
(* configuration as they were.                                             *)
C22_Idempotent ==
    /\ [][(pc = "first" /\ pc' = "second") => stats' = stats]_vars
    /\ [][(pc = "loaded" /\ pc' = "first") =>
             /\ trades' = trades
             /\ statsArg' = trades
             /\ <<initialCapital, commissionRate, positionSizeType, positionSize>>'
                    = <<initialCapital, commissionRate, positionSizeType,
                        positionSize>>]_vars

C22_Witness ==
    /\ pc = "second"
    /\ Len(trades) >= 2
    /\ trades[1].day = trades[2].day
    /\ trades[1].cells # trades[2].cells
    /\ stats.totalReturn # Zero
    /\ stats.numDays >= 1

(* generateDrawdownEventsFromDaily has returned scan.events.               *)
EventsReturned == pc = "done" /\ Len(dailyRecords) > 0

LastRecord == dailyRecords[Len(dailyRecords)]

LastEvent == scan.events[Len(scan.events)]

(* C23: of the events returned only the last may have recovered = FALSE,   *)
(* and it has exactly when a drawdown is open after the last day; its      *)
(* endDate is then the last date and its recoveryEquity the last           *)
(* endEquity.  Every earlier event has recovered = TRUE.                   *)
C23_OnlyLastUnrecovered ==
    EventsReturned =>
        /\ \A k \in 1..(Len(scan.events) - 1) : scan.events[k].recovered
        /\ Len(scan.events) > 0 => (~LastEvent.recovered <=> IsOpen(scan))
        /\ IsOpen(scan) =>
               /\ Len(scan.events) > 0
               /\ LastEvent.endDate = LastRecord.date
               /\ LastEvent.recoveryEquity = LastRecord.endEquity

(* The trades of this.trades that close on the day date.                   *)
TradesOfDay(date) == {i \in 1..Len(trades) : trades[i].day = date}

FirstOfDay(date) == CHOOSE i \in TradesOfDay(date) : \A k \in TradesOfDay(date) : i <= k

LastOfDay(date) == CHOOSE i \in TradesOfDay(date) : \A k \in TradesOfDay(date) : i >= k

(* C24: for a trade list in time order buildDailySeries returns one        *)
(* record for every calendar date with a trade and none for another date,  *)
(* in ascending date order; tradeCount counts the trades of the date,      *)
(* startEquity is the equity before the first of them, endEquity the       *)
(* equity after the last, and dailyPnL = endEquity - startEquity.          *)
C24_OneRecordPerDate ==
    Built =>
        /\ {build.dailyRecords[j].date : j \in 1..Len(build.dailyRecords)}
               = {trades[i].day : i \in 1..Len(trades)}
        /\ \A j \in 1..(Len(build.dailyRecords) - 1) :
               build.dailyRecords[j].date < build.dailyRecords[j + 1].date
        /\ \A j \in 1..Len(build.dailyRecords) :
               /\ build.dailyRecords[j].tradeCount
                      = Cardinality(TradesOfDay(build.dailyRecords[j].date))
               /\ build.dailyRecords[j].tradeCount >= 1
               /\ build.dailyRecords[j].startEquity =
                      build.ledger[FirstOfDay(build.dailyRecords[j].date)]
                          .equityAtTradeStart
               /\ build.dailyRecords[j].endEquity =
                      build.ledger[LastOfDay(build.dailyRecords[j].date)].equityAfter
               /\ build.dailyRecords[j].dailyPnL =
                      build.dailyRecords[j].endEquity
                          - build.dailyRecords[j].startEquity

C24_Witness ==
    /\ pc = "built"
    /\ Len(build.dailyRecords) = 2
    /\ build.dailyRecords[1].tradeCount = 2
    /\ build.dailyRecords[1].dailyPnL # build.ledger[1].netPnL
    /\ build.dailyRecords[2].startEquity # initialCapital

(* No row of this.trades has a P&L column.                                 *)
NoPnlColumn ==
    Len(trades) > 0 /\ \A i \in 1..Len(trades) : DetectPnlColumn(trades[i]) = NULL

(* The run has produced nothing: no daily series, no statistics, and       *)
(* this.periods is what it was before the run.                             *)
NothingProduced ==
    /\ periods \in {<<>>, EarlierPeriods}
    /\ dailyRecords = <<>>
    /\ stats = NullStats(0)

C26_EndState ==
    EventsReturned =>
        \/ /\ ~IsOpen(scan)
           /\ LastRecord.endEquity = RunningPeak(dailyRecords, Len(dailyRecords))
           /\ LastRecord.endEquity = scan.peakEquity
        \/ /\ IsOpen(scan)
           /\ Len(scan.events) > 0
           /\ ~LastEvent.recovered
           /\ LastEvent.recoveryEquity = LastRecord.endEquity
           /\ LastEvent.troughEquity <= LastRecord.endEquity
           /\ LastRecord.endEquity < LastEvent.peakEquity
           /\ LastEvent.peakEquity = RunningPeak(dailyRecords, Len(dailyRecords))

C26_Witness ==
    /\ EventsReturned
    /\ IsOpen(scan)
    /\ LastEvent.troughEquity < LastRecord.endEquity
    /\ LastEvent.troughDate < LastRecord.date

(* The values of the sample are one value: the standard deviation is 0,   *)
(* the only one below the epsilon for amounts of whole 1/1000 USD.         *)
OneValueSample ==
    /\ BinsReturned
    /\ Len(Sample) > 0
    /\ \A i \in 1..Len(Sample) : Sample[i] = Sample[1]

(* C27: when the standard deviation of the sample is below the epsilon,    *)
(* a distribution function returns one bin: binStart, binEnd and           *)
(* binCenter are the mean of the sample, count is its size, percentage is  *)
(* 100.0 and standardDeviations is 0.                                      *)
C27_SingleBin ==
    OneValueSample =>
        /\ Len(bins) = 1
        /\ bins[1].binStart = [mean |-> <<Sample[1], 1>>, stdDevs |-> <<0, 1>>]
        /\ bins[1].binEnd = bins[1].binStart
        /\ bins[1].binCenter = bins[1].binStart
        /\ bins[1].count = Len(Sample)
        /\ bins[1].percentage = 100 * 10
        /\ bins[1].standardDeviations = <<0, 1>>

C27_Witness ==
    /\ OneValueSample
    /\ Len(Sample) = 3
    /\ Sample[1] # 0
    /\ bins[1].count = 3

(* The largest depthUSD of the events, 0 without an event.                 *)
MaxDepth(events) ==
    IF Len(events) = 0 THEN 0
    ELSE CHOOSE d \in {events[k].depthUSD : k \in 1..Len(events)} :
             \A k \in 1..Len(events) : events[k].depthUSD <= d

(* C28: the largest depthUSD of the events the detector returns is the     *)
(* maxDrawdownValue the scan of calculatePeriodStats finds on the same     *)
(* daily records, both 0 when the equity never falls below its running     *)
(* peak; every event has troughEquity < peakEquity, and peakEquity does    *)
(* not decrease from an event to the next.                                 *)
C28_DepthIsMaxDrawdown ==
    EventsReturned =>
        /\ MaxDepth(scan.events) = MaxDrawdownValue(dailyRecords)
        /\ (Len(scan.events) = 0) <=>
               (\A j \in 1..Len(dailyRecords) : Drop(dailyRecords, j) = 0)
        /\ \A k \in 1..Len(scan.events) :
               scan.events[k].troughEquity < scan.events[k].peakEquity
        /\ \A k \in 1..(Len(scan.events) - 1) :
               scan.events[k].peakEquity <= scan.events[k + 1].peakEquity

C28_Witness ==
    /\ EventsReturned
    /\ Len(scan.events) = 2
    /\ scan.events[1].recoveryEquity > scan.events[1].peakEquity
    /\ scan.events[1].depthUSD < scan.events[2].depthUSD
    /\ scan.events[1].peakEquity < scan.events[2].peakEquity

(* The three folds have run.                                               *)
FoldsReturned == pc = "pnlDistribution" /\ Len(build.ledger) > 0

(* C29: run in the order of generateAllOutputs, the three folds agree:     *)
(* the return of trade i in generatePnLDistributionData is its netPnL in   *)
(* buildDailySeries, point i + 1 of generateEquityCurveData is the equity  *)
(* after trade i in buildDailySeries rounded to the cent, and the curve    *)
(* has one point at initialCapital followed by one point per trade.        *)
C29_FoldsAgree ==
    FoldsReturned =>
        /\ Len(returns) = Len(trades)
        /\ \A i \in 1..Len(trades) : returns[i] = build.ledger[i].netPnL
        /\ Len(equityCurve) = Len(trades) + 1
        /\ equityCurve[1].y = initialCapital
        /\ \A i \in 1..Len(trades) :
               /\ equityCurve[i + 1].y % 10 = 0
               /\ equityCurve[i + 1].y - build.ledger[i].equityAfter \in -5..5

C29_Witness ==
    /\ FoldsReturned
    /\ positionSizeType = "percentage"
    /\ commissionRate > 0
    /\ Len(trades) = 3
    /\ returns[3] # returns[1]
    /\ build.ledger[3].positionSize # build.ledger[1].positionSize
    /\ equityCurve[4].y # build.ledger[3].equityAfter

(* The heatmap rows and the overall statistics have been computed.         *)
HeatmapReturned == pc = "stats" /\ Len(heatmapData) > 0

EveryPeriodWins ==
    \A k \in 1..Len(heatmapData) : heatmapData[k].totalReturn.v[1] > 0

(* C30: every period is folded from initialCapital.  The numTrades of the  *)
(* periods add up to the number of trades; under fixed sizing their        *)
(* totalReturn adds up to the overall totalReturn; under percentage        *)
(* sizing it does not when several periods all win: the overall            *)
(* totalReturn, which compounds, is larger than the sum.                   *)
C30_PeriodsRestart ==
    HeatmapReturned =>
        /\ SumOfTrades(heatmapData) = Len(trades)
        /\ positionSizeType = "fixed" =>
               SumOfReturns(heatmapData) = stats.totalReturn.v[1]
        /\ (positionSizeType = "percentage" /\ Len(heatmapData) >= 2
                /\ EveryPeriodWins) =>
               stats.totalReturn.v[1] > SumOfReturns(heatmapData)

C30_Witness ==
    /\ HeatmapReturned
    /\ positionSizeType = "percentage"
    /\ Len(heatmapData) >= 2
    /\ EveryPeriodWins
    /\ stats.totalReturn.v[1] # SumOfReturns(heatmapData)

(* Fixed sizing over several periods with a return.                        *)
C30_FixedReached ==
    /\ HeatmapReturned
    /\ positionSizeType = "fixed"
    /\ Len(heatmapData) >= 2
    /\ \A k \in 1..Len(heatmapData) : heatmapData[k].totalReturn.v[1] # 0
    /\ heatmapData[1].numTrades = 2

====
